---- MODULE Spec2Model ----
(***************************************************************************)
(* A model of the core of the Trieste term-rewriting engine:               *)
(*   - the tagged tree (NodeDef, ast.h): child lists, parent pointers and  *)
(*     the contains_error / contains_lift propagation flags;               *)
(*   - the pattern combinators (rewrite.h) matching over a cursor;         *)
(*   - the pass executor (PassDef, pass.h): run / apply / step / lift.     *)
(*                                                                         *)
(* Nodes are heap cells 1..MaxNodes; 0 is the null pointer.  An iterator   *)
(* into a node's child vector is a 1-based index, end() is Len + 1.        *)
(***************************************************************************)
EXTENDS Integers, Sequences, FiniteSets, TLC

VARIABLES
  heap,      \* the NodeDef objects: type_, parent_, children, flags_, location_
  errs,      \* the Nodes vector last filled by get_errors
  gathered,  \* history: get_errors has run at least once
  nops,      \* history: the number of mutator calls made so far
  mcall,     \* a call of PatternDef::match: its arguments and, once made, its result
  scall,     \* a call of bind, include or lookup: its arguments and, once made, its result
  calls,     \* history: what the calls of fresh returned, what traverse called,
             \* the calls of apply and step that run has made
  rules,     \* PassDef::rules_
  dirn,      \* PassDef::direction_: the flags topdown, bottomup, once
  pc,        \* where PassDef::run is: start, apply, lift, done, failed
  stack,     \* the activations of PassDef::apply: node, it, changes, position in the loop body;
             \* in the destruction of nodes, the activations of ~NodeDef
  match,     \* the Match object of run
  changes,   \* run's changes
  changes_sum, \* run's changes_sum
  count,     \* run's count
  log,       \* history: the rule attempts of the last call of step
  heap0,     \* history: the heap run was called on
  work_list, \* ~NodeDef: thread_local std::vector<Nodes> work_list
  recursive, \* ~NodeDef: thread_local bool recursive
  refs       \* the nodes some Node outside the tree and its symbol tables points to

dtorvars == <<work_list, recursive, refs>>
nodevars == <<errs, gathered, nops, dtorvars>>
passvars == <<rules, dirn, pc, stack, match, changes, changes_sum, count, log, heap0, dtorvars>>
vars == <<heap, errs, gathered, nops, mcall, scall, calls, rules, dirn, pc, stack, match,
          changes, changes_sum, count, log, heap0, work_list, recursive, refs>>

-----------------------------------------------------------------------------
(* Bounds of the model *)

\* heap cells available to NodeDef::create
MaxNodes == 16

\* the number of mutator calls the mutator specification explores
MaxOps == 5

-----------------------------------------------------------------------------
(* The heap *)

Null == 0
Cells == 1..MaxNodes
Free == "Free"
NoLoc == <<>>

Min(a, b) == IF a <= b THEN a ELSE b
Max(a, b) == IF a >= b THEN a ELSE b

\* the capability flags of the tokens: Top and Block own a scope, Function owns
\* one that wants definitions before uses, Let and Def are found by lookup, Let
\* hides outer bindings, Field is found by lookdown only, the text of an Ident
\* counts when nodes are compared
TokenFlags(tag) ==
  CASE tag \in {"Top", "Block"} -> {"symtab"}
    [] tag = "Function"         -> {"symtab", "defbeforeuse"}
    [] tag = "Let"              -> {"lookup", "shadowing"}
    [] tag = "Def"              -> {"lookup"}
    [] tag = "Field"            -> {"lookdown"}
    [] tag = "Ident"            -> {"print"}
    [] OTHER                    -> {}

\* SymtabDef: symbols maps a Location to the nodes bound to it, in the order
\* they were bound; includes is the include list.  has tells a null symtab_
\* from a table.
NoSymtab  == [has |-> FALSE, symbols |-> [k \in {} |-> <<>>], includes |-> <<>>,
              next_id |-> 0]
NewSymtab == [has |-> TRUE,  symbols |-> [k \in {} |-> <<>>], includes |-> <<>>,
              next_id |-> 0]

\* the NodeDef constructor makes a table for a token with flag::symtab
InitSymtab(tag) == IF "symtab" \in TokenFlags(tag) THEN NewSymtab ELSE NoSymtab

EmptyHeap ==
  [ type     |-> [n \in Cells |-> Free],
    symtab   |-> [n \in Cells |-> NoSymtab],
    parent   |-> [n \in Cells |-> Null],
    children |-> [n \in Cells |-> <<>>],
    cerr     |-> [n \in Cells |-> FALSE],
    clift    |-> [n \in Cells |-> FALSE],
    loc      |-> [n \in Cells |-> NoLoc] ]

Allocated(h) == {n \in Cells : h.type[n] # Free}

\* NodeDef::create: a node with no children, no parent, cleared flags
FreshCell(h) == CHOOSE n \in Cells \ Allocated(h) : \A m \in Cells \ Allocated(h) : n <= m

create(h, n, tag, loc) ==
  [h EXCEPT !.type[n] = tag, !.parent[n] = Null, !.children[n] = <<>>,
            !.cerr[n] = FALSE, !.clift[n] = FALSE, !.loc[n] = loc,
            !.symtab[n] = InitSymtab(tag)]

\* Location::operator* : the smallest range containing both operands
LocUnion(a, b) ==
  IF a = NoLoc THEN b
  ELSE IF b = NoLoc THEN a
  ELSE <<Min(a[1], b[1]), Max(a[2], b[2])>>

Range(s) == {s[i] : i \in DOMAIN s}

Count(s, x) == Cardinality({i \in DOMAIN s : s[i] = x})

\* std::find over the child vector: the first index holding x, or end()
find(h, n, x) ==
  IF x \in Range(h.children[n])
  THEN CHOOSE i \in DOMAIN h.children[n] :
         /\ h.children[n][i] = x
         /\ \A j \in DOMAIN h.children[n] : h.children[n][j] = x => i <= j
  ELSE Len(h.children[n]) + 1

InsertAt(s, pos, xs) == SubSeq(s, 1, pos - 1) \o xs \o SubSeq(s, pos, Len(s))
RemoveRange(s, first, last) == SubSeq(s, 1, first - 1) \o SubSeq(s, last, Len(s))

\* the loops of add_flags: walk up from curr until a node that has the flag
RECURSIVE SetErrorUp(_, _)
\* a plausible bug: the walk also stops at an ancestor that has the other
\* flag, contains_lift
RECURSIVE SetErrorUp_either(_, _)
SetErrorUp_either(h, curr) ==
  IF curr = Null \/ h.cerr[curr] \/ h.clift[curr] THEN h
  ELSE SetErrorUp_either([h EXCEPT !.cerr[curr] = TRUE], h.parent[curr])

SetErrorUp(h, curr) ==
  IF curr = Null \/ h.cerr[curr] THEN h
  ELSE SetErrorUp([h EXCEPT !.cerr[curr] = TRUE], h.parent[curr])

RECURSIVE SetLiftUp(_, _)
SetLiftUp(h, curr) ==
  IF curr = Null \/ h.clift[curr] THEN h
  ELSE SetLiftUp([h EXCEPT !.clift[curr] = TRUE], h.parent[curr])

\* a plausible bug: only the immediate parent is flagged
add_flags_parent_only(h, n) ==
  IF h.type[n] = "Error" \/ h.cerr[n]
  THEN (IF h.parent[n] = Null THEN h ELSE [h EXCEPT !.cerr[h.parent[n]] = TRUE])
  ELSE IF h.type[n] = "Lift" \/ h.clift[n]
  THEN (IF h.parent[n] = Null THEN h ELSE [h EXCEPT !.clift[h.parent[n]] = TRUE])
  ELSE h

\* NodeDef::add_flags
add_flags(h, n) ==
  IF h.type[n] = "Error" \/ h.cerr[n] THEN SetErrorUp(h, h.parent[n])
  ELSE IF h.type[n] = "Lift" \/ h.clift[n] THEN SetLiftUp(h, h.parent[n])
  ELSE h

\* NodeDef::push_front
push_front(h, n, c) ==
  IF c = Null THEN h
  ELSE LET h1 == [h EXCEPT !.children[n] = <<c>> \o @, !.parent[c] = n]
       IN  add_flags(h1, c)

\* NodeDef::push_back(Node)
push_back(h, n, c) ==
  IF c = Null THEN h
  ELSE LET h1 == [h EXCEPT !.children[n] = Append(@, c), !.parent[c] = n]
       IN  add_flags(h1, c)

\* NodeDef::push_back(NodeRange)
RECURSIVE push_back_range(_, _, _)
push_back_range(h, n, cs) ==
  IF cs = <<>> THEN h
  ELSE push_back_range(push_back(h, n, Head(cs)), n, Tail(cs))

\* NodeDef::push_back_ephemeral: the child's parent pointer is not touched
push_back_ephemeral(h, n, c) ==
  IF c = Null THEN h ELSE [h EXCEPT !.children[n] = Append(@, c)]

\* NodeDef::pop_back
\* pop_back that clears the parent of the removed child whoever it is
pop_back_clears(h, n) ==
  IF h.children[n] = <<>> THEN h
  ELSE LET c == h.children[n][Len(h.children[n])]
       IN  [h EXCEPT !.children[n] = SubSeq(@, 1, Len(@) - 1), !.parent[c] = Null]

pop_back(h, n) ==
  IF h.children[n] = <<>> THEN h
  ELSE LET c  == h.children[n][Len(h.children[n])]
           h1 == [h EXCEPT !.children[n] = SubSeq(@, 1, Len(@) - 1)]
       IN  IF h.parent[c] = n THEN [h1 EXCEPT !.parent[c] = Null] ELSE h1

\* NodeDef::erase(first, last): the half-open index range [first, last)
erase(h, n, first, last) ==
  LET gone == {h.children[n][i] : i \in first..(last - 1)}
  IN  [h EXCEPT !.parent = [c \in Cells |->
                              IF c \in gone /\ h.parent[c] = n THEN Null ELSE h.parent[c]],
                !.children[n] = RemoveRange(@, first, last)]

\* NodeDef::insert(pos, Node)
insert(h, n, pos, c) ==
  IF c = Null THEN h
  ELSE LET h1 == add_flags([h EXCEPT !.parent[c] = n], c)
       IN  [h1 EXCEPT !.children[n] = InsertAt(@, pos, <<c>>)]

\* the loop of NodeDef::insert(pos, first, last)
RECURSIVE ClaimAll(_, _, _)
ClaimAll(h, n, cs) ==
  IF cs = <<>> THEN h
  ELSE ClaimAll(add_flags([h EXCEPT !.parent[Head(cs)] = n], Head(cs)), n, Tail(cs))

\* NodeDef::insert(pos, first, last)
insert_range(h, n, pos, cs) ==
  IF cs = <<>> THEN h
  ELSE LET h1 == ClaimAll(h, n, cs)
       IN  [h1 EXCEPT !.children[n] = InsertAt(@, pos, cs)]

\* a plausible bug: the search is not tested and the end of the child list is
\* taken for the place of node1
replace_unchecked(h, n, node1, node2) ==
  IF node2 # Null
  THEN [add_flags([h EXCEPT !.parent[node2] = n], node2)
          EXCEPT !.children[n] = Append(@, node2)]
  ELSE [h EXCEPT !.children[n] = SubSeq(@, 1, Len(@) - 1)]

\* NodeDef::replace(node1, node2): when node1 is not in n's child list the
\* call throws "Node not found" and nothing has been written
replace(h, n, node1, node2) ==
  LET it == find(h, n, node1)
  IN  IF it > Len(h.children[n]) THEN h
      ELSE IF node2 # Null
      THEN LET h1 == IF h.parent[node1] = n THEN [h EXCEPT !.parent[node1] = Null] ELSE h
               h2 == add_flags([h1 EXCEPT !.parent[node2] = n], node2)
           IN  [h2 EXCEPT !.children[n][it] = node2]
      ELSE [h EXCEPT !.children[n] = RemoveRange(@, it, it + 1)]

\* NodeDef::traverse with the pre-order action of get_errors and no post
\* action; path is the explicit stack of (node, child cursor) pairs
RECURSIVE GetErrorsLoop(_, _, _)
GetErrorsLoop(h, path, out) ==
  IF path = <<>> THEN [h |-> h, errs |-> out]
  ELSE LET top  == path[Len(path)]
           rest == SubSeq(path, 1, Len(path) - 1)
       IN  IF top.it <= Len(h.children[top.node])
           THEN LET curr == h.children[top.node][top.it]
                    adv  == Append(rest, [node |-> top.node, it |-> top.it + 1])
                IN  IF h.cerr[curr]
                    THEN GetErrorsLoop([h EXCEPT !.cerr[curr] = FALSE],
                                       Append(adv, [node |-> curr, it |-> 1]), out)
                    ELSE GetErrorsLoop(h, adv,
                                       IF h.type[curr] = "Error" THEN Append(out, curr) ELSE out)
           ELSE GetErrorsLoop(h, rest, out)

\* NodeDef::get_errors
get_errors(h, n, out) ==
  IF h.cerr[n]
  THEN GetErrorsLoop([h EXCEPT !.cerr[n] = FALSE], <<[node |-> n, it |-> 1]>>, out)
  ELSE [h |-> h, errs |-> IF h.type[n] = "Error" THEN Append(out, n) ELSE out]

-----------------------------------------------------------------------------
(* Tree geometry *)

\* the nodes reached from n through child vectors, n included
RECURSIVE SubtreeFrom(_, _, _)
SubtreeFrom(h, todo, seen) ==
  IF todo = {} THEN seen
  ELSE LET n    == CHOOSE x \in todo : TRUE
           kids == Range(h.children[n]) \ (seen \cup {n})
       IN  SubtreeFrom(h, (todo \ {n}) \cup kids, seen \cup {n})

Subtree(h, n) == SubtreeFrom(h, {n}, {})

\* the nodes on n's parent chain, n excluded
RECURSIVE AncestorsFrom(_, _, _)
AncestorsFrom(h, n, seen) ==
  IF n = Null \/ n \in seen THEN seen
  ELSE AncestorsFrom(h, h.parent[n], seen \cup {n})

Ancestors(h, n) == AncestorsFrom(h, h.parent[n], {})

-----------------------------------------------------------------------------
(* Match: the captures of a rule attempt (rewrite.h) *)

\* a NodeRange: the half-open index range [lo, hi) of node's child vector
NodeRange(n, lo, hi) == [node |-> n, lo |-> lo, hi |-> hi]

NoCaptures == [k \in {} |-> NodeRange(Null, 1, 1)]

\* Match::Match
NewMatch == [captures_set |-> FALSE, captures |-> NoCaptures]

\* std::map::insert(first, last): a key that is present keeps its value
MapInsert(into, from) ==
  [k \in (DOMAIN into) \cup (DOMAIN from) |->
     IF k \in DOMAIN into THEN into[k] ELSE from[k]]

\* Match::operator+=
MatchPlus(m, that) ==
  [captures_set |-> TRUE, captures |-> MapInsert(m.captures, that.captures)]

\* match[name] = range
MatchAssign(m, name, r) ==
  [m EXCEPT !.captures = [k \in (DOMAIN m.captures) \cup {name} |->
                            IF k = name THEN r ELSE m.captures[k]]]

\* a plausible bug: the captures of the previous attempt are kept
reset_keeps(m) == m

\* Match::reset
reset(m) == IF m.captures_set THEN NewMatch ELSE m

\* Match::operator(): the first node of a capture (read by effects only for
\* captures their pattern has set to a non-empty range)
CapNode(h, m, name) ==
  IF name \in DOMAIN m.captures
  THEN h.children[m.captures[name].node][m.captures[name].lo]
  ELSE Null

\* Match::operator[] read as a range: the nodes of a capture, in order
CapNodes(h, m, name) ==
  IF name \in DOMAIN m.captures
  THEN LET r == m.captures[name] IN SubSeq(h.children[r.node], r.lo, r.hi - 1)
  ELSE <<>>

-----------------------------------------------------------------------------
(* The pattern combinators (rewrite.h).  A pattern is an entry of the table  *)
(* Pat; its sub-patterns are the entries a and b.                            *)

PT(k, t, a, b) == [k |-> k, t |-> t, a |-> a, b |-> b]

Pat ==
  << PT("Any", "", 0, 0),              \*  1  Any
     PT("T", "A", 0, 0),               \*  2  T(A)
     PT("T", "B", 0, 0),               \*  3  T(B)
     PT("T", "D", 0, 0),               \*  4  T(D)
     PT("T", "Group", 0, 0),           \*  5  T(Group)
     PT("Last", "", 0, 0),             \*  6  End
     PT("First", "", 0, 0),            \*  7  Start
     PT("In", "Group", 0, 0),          \*  8  In(Group)
     PT("Children", "", 5, 6),         \*  9  T(Group) << End
     PT("Cap", "x", 1, 0),             \* 10  Any[x]
     PT("Seq", "", 10, 6),             \* 11  Any[x] * End
     PT("Children", "", 5, 11),        \* 12  T(Group) << (Any[x] * End)
     PT("Seq", "", 8, 12),             \* 13  In(Group) * (T(Group) << (Any[x] * End))
     PT("Seq", "", 8, 2),              \* 14  In(Group) * T(A)
     PT("Seq", "", 3, 4),              \* 15  T(B) * T(D)
     PT("Cap", "x", 2, 0),             \* 16  T(A)[x]
     PT("Cap", "y", 2, 0),             \* 17  T(A)[y]
     PT("Cap", "x", 3, 0),             \* 18  T(B)[x]
     PT("Cap", "y", 4, 0),             \* 19  T(D)[y]
     PT("Seq", "", 18, 19),            \* 20  T(B)[x] * T(D)[y]
     PT("Choice", "", 15, 2),          \* 21  (T(B) * T(D)) / T(A)
     PT("Opt", "", 15, 0),             \* 22  ~(T(B) * T(D))
     PT("Rep", "", 2, 0),              \* 23  T(A)++
     PT("Rep", "", 15, 0),             \* 24  (T(B) * T(D))++
     PT("Not", "", 15, 0),             \* 25  !(T(B) * T(D))
     PT("Pred", "", 15, 0),            \* 26  ++(T(B) * T(D))
     PT("NegPred", "", 15, 0),         \* 27  --(T(B) * T(D))
     PT("Seq", "", 23, 3),             \* 28  T(A)++ * T(B)
     PT("Action", "one", 23, 0),       \* 29  (T(A)++)(range holds one node)
     PT("Rep", "", 8, 0),              \* 30  In(Group)++
     PT("Seq", "", 26, 1),             \* 31  ++(T(B) * T(D)) * Any
     PT("Seq", "", 22, 4),             \* 32  ~(T(B) * T(D)) * T(D)
     PT("Seq", "", 1, 27),             \* 33  Any * --(T(B) * T(D))
     PT("Children", "", 5, 15),        \* 34  T(Group) << (T(B) * T(D))
     PT("Seq", "", 7, 2),              \* 35  Start * T(A)
     PT("Cap", "x", 28, 0),            \* 36  (T(A)++ * T(B))[x]
     PT("Seq", "", 25, 4),             \* 37  !(T(B) * T(D)) * T(D)
     PT("Choice", "", 28, 32),         \* 38  (T(A)++ * T(B)) / (~(T(B) * T(D)) * T(D))
     PT("Seq", "", 18, 4),             \* 39  T(B)[x] * T(D)
     PT("Seq", "", 16, 39),            \* 40  T(A)[x] * (T(B)[x] * T(D))
     PT("Seq", "", 16, 3),             \* 41  T(A)[x] * T(B)
     PT("Rep", "", 41, 0),             \* 42  (T(A)[x] * T(B))++
     PT("Seq", "", 16, 18),            \* 43  T(A)[x] * T(B)[x]
     PT("Cap", "y", 3, 0),             \* 44  T(B)[y]
     PT("Choice", "", 39, 44),         \* 45  (T(B)[x] * T(D)) / T(B)[y]
     PT("Opt", "", 39, 0),             \* 46  ~(T(B)[x] * T(D))
     PT("Rep", "", 16, 0),             \* 47  T(A)[x]++
     PT("Action", "one", 47, 0),       \* 48  (T(A)[x]++)(range holds one node)
     PT("Choice", "", 48, 17),         \* 49  (T(A)[x]++)(range holds one node) / T(A)[y]
     PT("Seq", "", 2, 2),              \* 50  T(A) * T(A)
     PT("Children", "", 50, 6),        \* 51  (T(A) * T(A)) << End
     PT("T", "Error", 0, 0),           \* 52  T(Error)
     PT("Children", "", 52, 16),       \* 53  T(Error) << T(A)[x]
     PT("Children", "", 5, 53),        \* 54  T(Group) << (T(Error) << T(A)[x])
     PT("Rep", "", 22, 0),             \* 55  (~(T(B) * T(D)))++
     PT("Cap", "x", 26, 0),            \* 56  (++(T(B) * T(D)))[x]
     PT("Rep", "", 56, 0),             \* 57  ((++(T(B) * T(D)))[x])++
     PT("Cap", "x", 23, 0)             \* 58  (T(A)++)[x]
  >>

\* PatternDef::custom_rep and its overrides
custom_rep(p) == Pat[p].k \in {"Rep", "In", "First", "Last", "Pred", "NegPred"}

\* Inside::any: Rep's constructor calls set_in_rep on its by-value parameter,
\* a copy of the pattern it has stored, so the stored Inside keeps any = false
InsideAny(p) == FALSE

\* the ActionFn of a P(action) pattern
ActionHolds(fn, lo, hi) ==
  CASE fn = "one" -> hi - lo = 1
    [] OTHER      -> FALSE

\* the result of a match call: whether it matched, where it left the cursor
\* and the Match; div when the call does not return
Res(ok, it, m) == [ok |-> ok, it |-> it, m |-> m, div |-> FALSE]

\* the loop of Inside::match over the parent chain
RECURSIVE InsideWalk(_, _, _, _)
InsideWalk(h, p, tag, any) ==
  IF p = Null THEN FALSE
  ELSE IF h.type[p] = tag THEN TRUE
  ELSE IF ~any THEN FALSE
  ELSE InsideWalk(h, h.parent[p], tag, any)

\* a plausible bug: Seq forgets to put the cursor back when its second part fails
SeqFail_keeps(begin, it) == it

\* detail::Seq::match, the cursor after `second` has failed
SeqFail(begin, it) == begin

\* a plausible bug: the second pattern is matched on match itself, not on match2
SeqFailMatch_shared(m, m2) == m2

\* detail::Seq::match: match2 is dropped when the second pattern fails
SeqFailMatch(m, m2) == m

\* detail::Pred::match and detail::NegPred::match: it = begin
PredCursor(begin, it) == begin

RECURSIVE MatchPat(_, _, _, _, _)
RECURSIVE RepLoop(_, _, _, _, _)

\* the while loop of detail::Rep::match
RepLoop(h, p, n, it, m) ==
  IF it = Len(h.children[n]) + 1 THEN Res(TRUE, it, m)
  ELSE LET r == MatchPat(h, p, n, it, m)
       IN  IF r.div THEN r
           ELSE IF ~r.ok THEN Res(TRUE, r.it, r.m)
           ELSE IF r.it = it THEN [r EXCEPT !.div = TRUE]
           ELSE RepLoop(h, p, n, r.it, r.m)

\* PatternDef::match of the pattern p on the child vector of n at cursor it
MatchPat(h, p, n, it, m) ==
  LET P   == Pat[p]
      end == Len(h.children[n]) + 1
      cur == h.children[n][it]
      r1  == MatchPat(h, P.a, n, it, m)
  IN  CASE P.k = "Any" ->
             IF it = end THEN Res(FALSE, it, m) ELSE Res(TRUE, it + 1, m)
        [] P.k = "T" ->
             IF it = end \/ h.type[cur] # P.t THEN Res(FALSE, it, m)
             ELSE Res(TRUE, it + 1, m)
        [] P.k = "First" ->
             IF it = end THEN Res(FALSE, it, m)
             ELSE Res(h.parent[cur] # Null /\ h.parent[cur] = n /\ it = 1, it, m)
        [] P.k = "Last" -> Res(it = end, it, m)
        [] P.k = "In" ->
             IF it = end THEN Res(FALSE, it, m)
             ELSE Res(InsideWalk(h, h.parent[cur], P.t, InsideAny(p)), it, m)
        [] P.k = "Cap" ->
             IF r1.div THEN r1
             ELSE IF ~r1.ok THEN Res(FALSE, r1.it, m)
             ELSE Res(TRUE, r1.it,
                      MatchAssign(MatchPlus(m, r1.m), P.t, NodeRange(n, it, r1.it)))
        [] P.k = "Opt" ->
             IF r1.div THEN r1
             ELSE IF r1.ok THEN Res(TRUE, r1.it, MatchPlus(m, r1.m))
             ELSE Res(TRUE, r1.it, m)
        [] P.k = "Rep" ->
             IF custom_rep(P.a) THEN r1 ELSE RepLoop(h, P.a, n, it, m)
        [] P.k = "Not" ->
             IF it = end THEN Res(FALSE, it, m)
             ELSE IF r1.div THEN r1
             ELSE IF r1.ok THEN Res(FALSE, it, m)
             ELSE Res(TRUE, it + 1, m)
        [] P.k = "Seq" ->
             IF r1.div THEN r1
             ELSE IF ~r1.ok THEN Res(FALSE, r1.it, m)
             ELSE LET r2 == MatchPat(h, P.b, n, r1.it, r1.m)
                  IN  IF r2.div THEN r2
                      ELSE IF ~r2.ok
                      THEN Res(FALSE, SeqFail(it, r2.it), SeqFailMatch(m, r2.m))
                      ELSE Res(TRUE, r2.it, MatchPlus(m, r2.m))
        [] P.k = "Choice" ->
             IF r1.div THEN r1
             ELSE IF r1.ok THEN Res(TRUE, r1.it, MatchPlus(m, r1.m))
             ELSE LET r2 == MatchPat(h, P.b, n, r1.it, m)
                  IN  IF r2.div THEN r2
                      ELSE IF r2.ok THEN Res(TRUE, r2.it, MatchPlus(m, r2.m))
                      ELSE Res(FALSE, r2.it, m)
        [] P.k = "Children" ->
             IF r1.div THEN r1
             ELSE IF ~r1.ok THEN Res(FALSE, r1.it, m)
             ELSE LET r2 == MatchPat(h, P.b, cur, 1, r1.m)
                  IN  IF r2.div THEN r2
                      ELSE IF ~r2.ok THEN Res(FALSE, it, m)
                      ELSE Res(TRUE, r1.it, MatchPlus(m, r2.m))
        [] P.k = "Pred" ->
             IF r1.div THEN r1 ELSE Res(r1.ok, PredCursor(it, r1.it), m)
        [] P.k = "NegPred" ->
             IF r1.div THEN r1 ELSE Res(~r1.ok, PredCursor(it, r1.it), m)
        [] P.k = "Action" ->
             IF r1.div THEN r1
             ELSE IF ~r1.ok THEN Res(FALSE, r1.it, m)
             ELSE IF ~ActionHolds(P.t, it, r1.it) THEN Res(FALSE, it, m)
             ELSE Res(TRUE, r1.it, MatchPlus(m, r1.m))

-----------------------------------------------------------------------------
(* Trees as the parser and the Node API build them *)

N(tag, kids) == <<tag, kids>>
L(tag) == <<tag, <<>>>>

\* the trees the pass and match specifications start from; the root is Top
Trees ==
  << N("Top", <<N("Group", <<L("B")>>)>>),
     N("Top", <<N("Block", <<N("Group", <<L("A"), L("A")>>)>>)>>),
     N("Top", <<N("Block", <<N("Group", <<L("B"), L("A"), L("D")>>)>>)>>),
     N("Top", <<N("Group", <<N("Group", <<L("A")>>)>>)>>),
     N("Top", <<N("Group", <<N("Group", <<L("A"), L("B")>>)>>)>>),
     N("Top", <<N("Group", <<L("A"), L("B"), L("D")>>)>>),
     N("Top", <<N("Block", <<N("Lift", <<L("Block"), L("C")>>)>>)>>),
     N("Top", <<N("Group", <<N("Error", <<L("A")>>), L("A")>>)>>),
     N("Top", <<N("Group", <<N("Lift", <<L("Block"), L("C")>>), L("B")>>)>>),
     N("Top", <<N("Block", <<N("Error", <<N("Lift", <<L("Block"), L("C")>>)>>)>>)>>),
     N("Top", <<N("Block", <<N("Group",
        <<L("A"), N("Lift", <<L("Block"), L("C"), N("Lift", <<L("Group"), L("D")>>)>>)>>)>>)>>),
     N("Top", <<N("Group", <<L("A"), L("B"), L("A"), L("B")>>)>>)
  >>

RECURSIVE BuildTerm(_, _)
RECURSIVE BuildKids(_, _, _)

\* NodeDef::create followed by a push_back of each child, children first built
BuildTerm(h, term) ==
  LET n  == FreshCell(h)
      h1 == create(h, n, term[1], <<n, n>>)
  IN  [h |-> BuildKids(h1, n, term[2]), node |-> n]

BuildKids(h, n, kids) ==
  IF kids = <<>> THEN h
  ELSE LET r == BuildTerm(h, Head(kids))
       IN  BuildKids(push_back(r.h, n, r.node), n, Tail(kids))

BuildTree(term) == BuildTerm(EmptyHeap, term).h

\* the root of a built tree is the first cell
Root == 1

-----------------------------------------------------------------------------
(* Rule effects: the closures of the rules, as terms over the Node API *)

ENull == [k |-> "null"]
ENoChange == [k |-> "nochange"]
ENew(tag, kids) == [k |-> "new", tag |-> tag, kids |-> kids]
ECap(name) == [k |-> "cap", name |-> name]
ERange(name) == [k |-> "range", name |-> name]

Rule(pat, eff) == [pat |-> pat, eff |-> eff]

\* the rule vectors of the passes the pass specification runs
RuleSets ==
  << <<>>,
     \* (T(Group) << End) >> C;  T(B) >> {}
     << Rule(9, ENew("C", <<>>)), Rule(3, ENull) >>,
     \* In(Group) * T(A) >> Lift << Block << C;  T(B) * T(D) >> Seq << E << F
     << Rule(14, ENew("Lift", <<ENew("Block", <<>>), ENew("C", <<>>)>>)),
        Rule(15, ENew("Seq", <<ENew("E", <<>>), ENew("F", <<>>)>>)) >>,
     \* T(A)[x] >> NoChange;  T(A)[y] >> C;  T(A) >> D
     << Rule(16, ENoChange), Rule(17, ENew("C", <<>>)), Rule(2, ENew("D", <<>>)) >>,
     \* In(Group) * (T(Group) << (Any[x] * End)) >> _(x);
     \* T(B)[x] * T(D)[y] >> Seq << _[y] << _[x]
     << Rule(13, ECap("x")),
        Rule(20, ENew("Seq", <<ERange("y"), ERange("x")>>)) >>,
     \* T(B)[x] >> Error << _[x];  T(A) >> {}
     << Rule(18, ENew("Error", <<ERange("x")>>)), Rule(2, ENull) >>,
     \* T(A)[x] >> NoChange;  T(B) * T(D) >> Seq << E << F
     << Rule(16, ENoChange),
        Rule(15, ENew("Seq", <<ENew("E", <<>>), ENew("F", <<>>)>>)) >>,
     \* T(Group) << (T(Error) << T(A)[x]) >> _(x)
     << Rule(54, ECap("x")) >>,
     \* T(B) * T(D) >> Seq << E << F;  T(A) >> D
     << Rule(15, ENew("Seq", <<ENew("E", <<>>), ENew("F", <<>>)>>)),
        Rule(2, ENew("D", <<>>)) >>
  >>

\* what an effect returns for NoChange: a node of that tag, which lives only
\* until step has looked at its type
NoChangeNode == -1

RECURSIVE BuildEffect(_, _, _)
RECURSIVE BuildEffectKids(_, _, _, _)
RECURSIVE BuildEffectKid(_, _, _, _)

\* the node an effect term builds: operator<<(Node, Node) and
\* operator<<(Node, NodeRange) are push_back
BuildEffect(h, m, e) ==
  IF e.k = "cap" THEN [h |-> h, node |-> CapNode(h, m, e.name)]
  ELSE [h |-> BuildEffectKids(create(h, FreshCell(h), e.tag, NoLoc), m, FreshCell(h), e.kids),
        node |-> FreshCell(h)]

BuildEffectKids(h, m, n, kids) ==
  IF kids = <<>> THEN h
  ELSE IF Head(kids).k = "range"
       THEN BuildEffectKids(push_back_range(h, n, CapNodes(h, m, Head(kids).name)),
                            m, n, Tail(kids))
       ELSE BuildEffectKid(BuildEffect(h, m, Head(kids)), m, n, Tail(kids))

\* node << the node the sub-term r built
BuildEffectKid(r, m, n, kids) == BuildEffectKids(push_back(r.h, n, r.node), m, n, kids)

\* rule.second(match)
RunEffect(h, m, e) ==
  IF e.k = "null" THEN [h |-> h, node |-> Null]
  ELSE IF e.k = "nochange" THEN [h |-> h, node |-> NoChangeNode]
  ELSE BuildEffect(h, m, e)

-----------------------------------------------------------------------------
(* PassDef::step *)

RECURSIVE set_location(_, _, _)
RECURSIVE SetLocationAll(_, _, _)

\* NodeDef::set_location
set_location(h, n, loc) ==
  SetLocationAll(IF h.loc[n] = NoLoc THEN [h EXCEPT !.loc[n] = loc] ELSE h,
                 h.children[n], loc)

SetLocationAll(h, cs, loc) ==
  IF cs = <<>> THEN h
  ELSE SetLocationAll(set_location(h, Head(cs), loc), Tail(cs), loc)

\* loc = (*start)->location() * ... over [start, it)
RECURSIVE RangeLoc(_, _, _)
RangeLoc(h, cs, loc) ==
  IF cs = <<>> THEN loc ELSE RangeLoc(h, Tail(cs), LocUnion(loc, h.loc[Head(cs)]))

\* a plausible bug: after NoChange the next rule starts where the match ended
NoChangeCursor_keeps(start, it) == it

\* step, on NoChange: it = start
NoChangeCursor(start, it) == start

\* a plausible bug: the nodes after the matched range are dropped with it
StepErase_to_end(h, node, start, it) == erase(h, node, start, Len(h.children[node]) + 1)

\* step: it = node->erase(start, it)
StepErase(h, node, start, it) == erase(h, node, start, it)

\* one entry of the history of a call of step
Attempt(k, start, r, fired, node) ==
  [rule |-> k, start |-> start, matched |-> r.ok, hi |-> r.it,
   captures |-> r.m.captures, fired |-> fired, node |-> node]

RECURSIVE StepFrom(_, _, _, _, _, _)
RECURSIVE StepTry(_, _, _, _, _, _)
RECURSIVE StepEffect(_, _, _, _, _, _)

\* step: the nodes that go where the matched range was
StepRepl(h, enode) ==
  IF enode = Null THEN <<>>
  ELSE IF h.type[enode] = "Seq" THEN h.children[enode]
  ELSE <<enode>>

\* step: set_location and node->insert of the replacement
StepInsert(h, node, start, enode, loc) ==
  IF enode = Null THEN h
  ELSE IF h.type[enode] = "Seq"
  THEN insert_range(SetLocationAll(h, h.children[enode], loc), node, start, h.children[enode])
  ELSE insert(set_location(h, enode, loc), node, start, enode)

\* step, once the matched range has been erased
StepSplice(h1, node, start, k, lg, r, enode, loc) ==
  [h |-> StepInsert(h1, node, start, enode, loc), m |-> r.m, it |-> start,
   replaced |-> Len(StepRepl(h1, enode)),
   log |-> Append(lg, Attempt(k, start, r, TRUE, enode))]

\* step, when rule k's effect has returned something other than NoChange
StepFire(h, node, start, k, lg, r, enode) ==
  StepSplice(StepErase(h, node, start, r.it), node, start, k, lg, r, enode,
             RangeLoc(h, SubSeq(h.children[node], start, r.it - 1), NoLoc))

\* step, when rule k's pattern has matched and its effect has returned e
StepEffect(node, start, k, lg, r, e) ==
  IF e.node = NoChangeNode
  THEN StepFrom(e.h, r.m, node, NoChangeCursor(start, r.it), k + 1,
                Append(lg, Attempt(k, start, r, FALSE, NoChangeNode)))
  ELSE StepFire(e.h, node, start, k, lg, r, e.node)

\* step, when rule k's pattern has returned r
StepTry(h, node, start, k, lg, r) ==
  IF ~r.ok
  THEN StepFrom(h, r.m, node, r.it, k + 1, Append(lg, Attempt(k, start, r, FALSE, Null)))
  ELSE StepEffect(node, start, k, lg, r, RunEffect(h, r.m, rules[k].eff))

\* the loop of step over rules_, from rule k on
StepFrom(h, m, node, it, k, lg) ==
  IF k > Len(rules) THEN [h |-> h, m |-> m, it |-> it, replaced |-> -1, log |-> lg]
  ELSE StepTry(h, node, it, k, lg, MatchPat(h, rules[k].pat, node, it, reset(m)))

\* PassDef::step
step(h, m, node, it) == StepFrom(h, m, node, it, 1, <<>>)

-----------------------------------------------------------------------------
(* PassDef::lift *)

\* a plausible bug: the cursor is not moved past the spliced payload
LiftCursor_stays(it, size) == it

\* lift: it += lnode->size() - 1
LiftCursor(it, size) == it + size - 1

\* a plausible bug: lift does not look inside Error nodes, as apply does not
LiftDescends_not_error(h, c) == h.type[c] # "Error"

\* lift recurses into every child
LiftDescends(h, c) == TRUE

RECURSIVE lift(_, _)
RECURSIVE LiftLoop(_, _, _, _)
RECURSIVE LiftNext(_, _)
RECURSIVE LiftChild(_, _, _, _, _)
RECURSIVE LiftConsume(_, _, _, _, _, _)

\* the for loop of lift over the lifted envelopes
LiftConsume(h, node, it, lifted, uplift, advance) ==
  IF lifted = <<>> THEN [h |-> h, it |-> it, up |-> uplift, advance |-> advance]
  ELSE IF h.type[h.children[Head(lifted)][1]] = h.type[node]
       THEN LiftConsume(insert_range(h, node, it, Tail(h.children[Head(lifted)])), node,
                        LiftCursor(it, Len(h.children[Head(lifted)])),
                        Tail(lifted), uplift, FALSE)
       ELSE LiftConsume(h, node, it, Tail(lifted), Append(uplift, Head(lifted)), advance)

\* lift: the cursor after a child has been dealt with
LiftNext(node, res) ==
  LiftLoop(res.h, node, IF res.advance THEN res.it + 1 ELSE res.it, res.up)

\* lift, when lift(*it) has returned r for the child c at it
LiftChild(node, it, uplift, c, r) ==
  IF r.h.type[c] = "Lift"
  THEN LiftNext(node, LiftConsume(erase(r.h, node, it, it + 1), node, it,
                                  <<c>> \o r.up, uplift, FALSE))
  ELSE LiftNext(node, LiftConsume(r.h, node, it, r.up, uplift, TRUE))

\* the while loop of lift over node's children
LiftLoop(h, node, it, uplift) ==
  IF it > Len(h.children[node]) THEN [h |-> h, up |-> uplift]
  ELSE LiftChild(node, it, uplift, h.children[node][it],
                 IF LiftDescends(h, h.children[node][it])
                 THEN lift(h, h.children[node][it])
                 ELSE [h |-> h, up |-> <<>>])

lift(h, node) == LiftLoop(h, node, 1, <<>>)

-----------------------------------------------------------------------------
(* PassDef::run and PassDef::apply, one loop-body step per action.  The      *)
(* passes have no pre or post hooks.                                         *)

\* no call of match is being made
NoCall == [st |-> "none"]

Directions ==
  { [topdown |-> td, bottomup |-> ~td, once |-> o] : td, o \in BOOLEAN }

PassInit ==
  /\ \E i \in DOMAIN Trees : heap = BuildTree(Trees[i])
  /\ \E i \in DOMAIN RuleSets : rules = RuleSets[i]
  /\ dirn \in Directions
  /\ pc = "start"
  /\ stack = <<>>
  /\ match = NewMatch
  /\ changes = 0
  /\ changes_sum = 0
  /\ count = 0
  /\ log = <<>>
  /\ heap0 = heap
  /\ work_list = <<>>
  /\ recursive = FALSE
  /\ refs = {Root}
  /\ errs = <<>>
  /\ calls = <<>>
  /\ scall = NoCall
  /\ gathered = FALSE
  /\ nops = 0
  /\ mcall = NoCall

\* a plausible bug: the recursive call of apply is made on node, not on *it
Frame_node(n) ==
  [node |-> IF heap.parent[n] = Null THEN n ELSE heap.parent[n],
   it |-> 1, changes |-> 0, ph |-> "top", replaced |-> -1, i |-> 0]

Frame(n) == [node |-> n, it |-> 1, changes |-> 0, ph |-> "top", replaced |-> -1, i |-> 0]

TopFrame == stack[Len(stack)]
Callers == SubSeq(stack, 1, Len(stack) - 1)
SetTop(f) == Append(Callers, f)
End(f) == Len(heap.children[f.node]) + 1
Skipped(h, n) == h.type[n] \in {"Error", "Lift"}

\* run: changes = apply(match, node)
RunApply ==
  /\ pc = "start"
  /\ pc' = "apply"
  /\ stack' = <<Frame(Root)>>
  /\ calls' = Append(calls, <<"apply", Root>>)
  /\ UNCHANGED <<heap, nodevars, mcall, scall, rules, dirn, match, changes, changes_sum,
                 count, log, heap0>>

\* apply: the while loop has ended; return changes to the caller
ApplyReturn ==
  /\ pc = "apply" /\ stack # <<>>
  /\ TopFrame.ph = "top" /\ TopFrame.it = End(TopFrame)
  /\ IF Len(stack) = 1
     THEN /\ stack' = <<>>
          /\ changes' = TopFrame.changes
          /\ pc' = "lift"
     ELSE /\ stack' = Append(SubSeq(stack, 1, Len(stack) - 2),
                             [stack[Len(stack) - 1] EXCEPT
                                !.changes = @ + TopFrame.changes])
          /\ UNCHANGED <<changes, pc>>
  /\ UNCHANGED <<heap, nodevars, mcall, calls, scall, rules, dirn, match, changes_sum, count, log, heap0>>

\* apply: don't examine Error or Lift nodes
ApplySkip ==
  /\ pc = "apply" /\ stack # <<>>
  /\ TopFrame.ph = "top" /\ TopFrame.it < End(TopFrame)
  /\ Skipped(heap, heap.children[TopFrame.node][TopFrame.it])
  /\ stack' = SetTop([TopFrame EXCEPT !.it = @ + 1])
  /\ UNCHANGED <<heap, nodevars, mcall, calls, scall, rules, dirn, pc, match, changes, changes_sum,
                 count, log, heap0>>

\* apply, bottomup: changes += apply(match, *it) before step
ApplyBottomUp ==
  /\ pc = "apply" /\ stack # <<>>
  /\ TopFrame.ph = "top" /\ TopFrame.it < End(TopFrame)
  /\ ~Skipped(heap, heap.children[TopFrame.node][TopFrame.it])
  /\ dirn.bottomup
  /\ stack' = Append(SetTop([TopFrame EXCEPT !.ph = "step"]),
                     Frame(heap.children[TopFrame.node][TopFrame.it]))
  /\ calls' = Append(calls, <<"apply", heap.children[TopFrame.node][TopFrame.it]>>)
  /\ UNCHANGED <<heap, nodevars, mcall, scall, rules, dirn, pc, match, changes, changes_sum,
                 count, log, heap0>>

\* a plausible bug: without once the scan goes on behind the nodes a rule
\* has put in place and does not start again at the first child
AfterStep_goes_on(f, s, g) ==
  IF dirn.once
  THEN IF dirn.topdown /\ s.replaced # 0
       THEN SetTop([g EXCEPT !.ph = "down"])
       ELSE SetTop([g EXCEPT !.ph = "top",
                             !.it = IF s.replaced >= 0 THEN s.it + s.replaced ELSE s.it + 1])
  ELSE IF s.replaced >= 0
       THEN SetTop([g EXCEPT !.ph = "top", !.it = s.it + s.replaced])
       ELSE IF dirn.topdown
            THEN Append(SetTop([g EXCEPT !.ph = "adv"]), Frame(s.h.children[f.node][s.it]))
            ELSE SetTop([g EXCEPT !.ph = "top", !.it = s.it + 1])

\* a plausible bug: in once mode the cursor always advances by
\* max(replaced, 1), also past the node that follows a removed range
AfterStep_max(f, s, g) ==
  IF dirn.once
  THEN IF dirn.topdown /\ s.replaced # 0
       THEN SetTop([g EXCEPT !.ph = "down"])
       ELSE SetTop([g EXCEPT !.ph = "top", !.it = s.it + Max(s.replaced, 1)])
  ELSE IF s.replaced >= 0
       THEN SetTop([g EXCEPT !.ph = "top", !.it = 1])
       ELSE IF dirn.topdown
            THEN Append(SetTop([g EXCEPT !.ph = "adv"]), Frame(s.h.children[f.node][s.it]))
            ELSE SetTop([g EXCEPT !.ph = "top", !.it = s.it + 1])

\* apply: where the cursor goes after step has returned s in the activation f
AfterStep(f, s, g) ==
  IF dirn.once
  THEN IF dirn.topdown /\ s.replaced # 0
       THEN SetTop([g EXCEPT !.ph = "down"])
       ELSE SetTop([g EXCEPT !.ph = "top",
                             !.it = IF s.replaced >= 0 THEN s.it + s.replaced ELSE s.it + 1])
  ELSE IF s.replaced >= 0
       THEN SetTop([g EXCEPT !.ph = "top", !.it = 1])
       ELSE IF dirn.topdown
            THEN Append(SetTop([g EXCEPT !.ph = "adv"]), Frame(s.h.children[f.node][s.it]))
            ELSE SetTop([g EXCEPT !.ph = "top", !.it = s.it + 1])

\* history of one step: the node step started at, the node among whose
\* children a rule has fired, the nodes that rule has put in place, and the
\* call of apply that follows a step in which no rule fired (topdown,
\* without once)
StepCalls(f, s) ==
  <<<<"step", heap.children[f.node][f.it]>>>>
  \o (IF s.replaced >= 0 THEN <<<<"fired", f.node>>>> ELSE <<>>)
  \o [j \in 1..Max(s.replaced, 0) |-> <<"made", s.h.children[f.node][s.it + j - 1]>>]
  \o (IF ~dirn.once /\ s.replaced < 0 /\ dirn.topdown
      THEN <<<<"apply", s.h.children[f.node][s.it]>>>> ELSE <<>>)

\* apply: the state after step has returned s in the activation f
StepReturns(f, s) ==
  /\ heap' = s.h
  /\ calls' = calls \o StepCalls(f, s)
  /\ match' = s.m
  /\ log' = s.log
  /\ stack' = AfterStep(f, s, [f EXCEPT !.it = s.it,
                                        !.changes = @ + (IF s.replaced >= 0 THEN s.replaced ELSE 0),
                                        !.replaced = s.replaced,
                                        !.i = 0])

\* apply: step(match, node, it, changes, replaced) and the moves of the
\* cursor that follow it
ApplyStep ==
  /\ pc = "apply" /\ stack # <<>>
  /\ \/ TopFrame.ph = "step"
     \/ /\ TopFrame.ph = "top" /\ TopFrame.it < End(TopFrame)
        /\ ~Skipped(heap, heap.children[TopFrame.node][TopFrame.it])
        /\ ~dirn.bottomup
  /\ StepReturns(TopFrame, step(heap, match, TopFrame.node, TopFrame.it))
  /\ UNCHANGED <<nodevars, mcall, scall, rules, dirn, pc, changes, changes_sum, count, heap0>>

\* apply, once | topdown: changes += apply(match, *(it + i)); apply returns 0
\* at once on an Error or Lift node
ApplyDown ==
  /\ pc = "apply" /\ stack # <<>>
  /\ TopFrame.ph = "down"
  /\ TopFrame.i < Max(TopFrame.replaced, 1)
  /\ LET c == heap.children[TopFrame.node][TopFrame.it + TopFrame.i]
         g == [TopFrame EXCEPT !.i = @ + 1]
     IN  /\ stack' = IF Skipped(heap, c) THEN SetTop(g) ELSE Append(SetTop(g), Frame(c))
         /\ calls' = Append(calls, <<"apply", c>>)
  /\ UNCHANGED <<heap, nodevars, mcall, scall, rules, dirn, pc, match, changes, changes_sum,
                 count, log, heap0>>

\* apply, once: skip over everything we examined or populated
ApplyDownDone ==
  /\ pc = "apply" /\ stack # <<>>
  /\ TopFrame.ph = "down"
  /\ TopFrame.i >= Max(TopFrame.replaced, 1)
  /\ stack' = SetTop([TopFrame EXCEPT
                        !.ph = "top",
                        !.it = IF TopFrame.replaced >= 0 THEN @ + TopFrame.replaced
                               ELSE @ + 1])
  /\ UNCHANGED <<heap, nodevars, mcall, calls, scall, rules, dirn, pc, match, changes, changes_sum,
                 count, log, heap0>>

\* apply, topdown without once: advance to the next node after moving down
ApplyAdvance ==
  /\ pc = "apply" /\ stack # <<>>
  /\ TopFrame.ph = "adv"
  /\ stack' = SetTop([TopFrame EXCEPT !.ph = "top", !.it = @ + 1])
  /\ UNCHANGED <<heap, nodevars, mcall, calls, scall, rules, dirn, pc, match, changes, changes_sum,
                 count, log, heap0>>

\* a plausible bug: the iteration is not counted
NextCount_same(c) == c

\* run: count++
NextCount(c) == c + 1

\* a plausible bug: run loops while changes > 0 whether once is set or not
LiftReturns_loop(r) ==
  /\ heap' = r.h
  /\ IF r.up # <<>>
     THEN /\ pc' = "failed"
          /\ UNCHANGED <<changes_sum, count>>
     ELSE /\ changes_sum' = changes_sum + changes
          /\ count' = NextCount(count)
          /\ pc' = IF changes > 0 THEN "start" ELSE "done"

\* run: lift(node) has returned r; the throw on lifted nodes with no
\* destination, the sums and the loop condition
LiftReturns(r) ==
  /\ heap' = r.h
  /\ IF r.up # <<>>
     THEN /\ pc' = "failed"
          /\ UNCHANGED <<changes_sum, count>>
     ELSE /\ changes_sum' = changes_sum + changes
          /\ count' = NextCount(count)
          /\ pc' = IF dirn.once THEN "done"
                   ELSE IF changes > 0 THEN "start" ELSE "done"

RunLift ==
  /\ pc = "lift"
  /\ LiftReturns(lift(heap, Root))
  /\ UNCHANGED <<nodevars, mcall, calls, scall, rules, dirn, stack, match, changes, log, heap0>>

PassNext ==
  \/ RunApply
  \/ ApplyReturn
  \/ ApplySkip
  \/ ApplyBottomUp
  \/ ApplyStep
  \/ ApplyDown
  \/ ApplyDownDone
  \/ ApplyAdvance
  \/ RunLift

SpecPass == PassInit /\ [][PassNext]_vars

-----------------------------------------------------------------------------
(* The mutators as operations on a pool of created nodes *)

\* the tags of the nodes the mutator specification creates before it starts
\* no pass is running
PassIdle ==
  /\ rules = <<>>
  /\ dirn = [topdown |-> TRUE, bottomup |-> FALSE, once |-> FALSE]
  /\ pc = "idle"
  /\ stack = <<>>
  /\ match = NewMatch
  /\ changes = 0
  /\ changes_sum = 0
  /\ count = 0
  /\ log = <<>>
  /\ heap0 = EmptyHeap
  /\ work_list = <<>>
  /\ recursive = FALSE
  /\ refs = {Root}

PoolTags == { <<"Top", "Group", "Error">>,
              <<"Group", "Error", "Lift">>,
              <<"Group", "Error", "Error">> }

Pool == {n \in Cells : heap.type[n] # Free}

NodeInit ==
  /\ \E tags \in PoolTags :
       heap = [EmptyHeap EXCEPT !.type = [n \in Cells |->
                                  IF n <= Len(tags) THEN tags[n] ELSE Free],
                                !.symtab = [n \in Cells |->
                                  IF n <= Len(tags) THEN InitSymtab(tags[n])
                                  ELSE NoSymtab]]
  /\ errs = <<>>
  /\ calls = <<>>
  /\ scall = NoCall
  /\ gathered = FALSE
  /\ nops = 0
  /\ mcall = NoCall
  /\ PassIdle

\* what the callers of the attaching mutators keep to: a node is not attached
\* below itself
CanAttach(n, c) ==
  /\ nops < MaxOps
  /\ n \notin Subtree(heap, c)

PushBack(n, c) ==
  /\ CanAttach(n, c)
  /\ heap' = push_back(heap, n, c)
  /\ nops' = nops + 1
  /\ UNCHANGED <<errs, gathered, mcall, calls, scall, passvars>>

PushFront(n, c) ==
  /\ CanAttach(n, c)
  /\ heap' = push_front(heap, n, c)
  /\ nops' = nops + 1
  /\ UNCHANGED <<errs, gathered, mcall, calls, scall, passvars>>

Insert(n, pos, c) ==
  /\ CanAttach(n, c)
  /\ heap' = insert(heap, n, pos, c)
  /\ nops' = nops + 1
  /\ UNCHANGED <<errs, gathered, mcall, calls, scall, passvars>>

PushBackEphemeral(n, c) ==
  /\ CanAttach(n, c)
  /\ heap' = push_back_ephemeral(heap, n, c)
  /\ nops' = nops + 1
  /\ UNCHANGED <<errs, gathered, mcall, calls, scall, passvars>>

PopBack(n) ==
  /\ nops < MaxOps
  /\ heap.children[n] # <<>>
  /\ heap' = pop_back(heap, n)
  /\ nops' = nops + 1
  /\ UNCHANGED <<errs, gathered, mcall, calls, scall, passvars>>

Erase(n, first, last) ==
  /\ nops < MaxOps
  /\ heap' = erase(heap, n, first, last)
  /\ nops' = nops + 1
  /\ UNCHANGED <<errs, gathered, mcall, calls, scall, passvars>>

\* replace(node1, node2) with a replacement
Replace(n, node1, node2) ==
  /\ nops < MaxOps
  /\ n \notin Subtree(heap, node2)
  /\ heap' = replace(heap, n, node1, node2)
  /\ nops' = nops + 1
  /\ UNCHANGED <<errs, gathered, mcall, calls, scall, passvars>>

\* replace(node1) with the default, null, replacement
ReplaceNone(n, node1) ==
  /\ nops < MaxOps
  /\ heap' = replace(heap, n, node1, Null)
  /\ nops' = nops + 1
  /\ UNCHANGED <<errs, gathered, mcall, calls, scall, passvars>>

GetErrors(n) ==
  /\ nops < MaxOps
  /\ LET r == get_errors(heap, n, <<>>)
     IN  heap' = r.h /\ errs' = r.errs
  /\ gathered' = TRUE
  /\ nops' = nops + 1
  /\ UNCHANGED <<mcall, calls, scall, passvars>>

NodeNext ==
  \/ \E n, c \in Pool : PushBack(n, c)
  \/ \E n, c \in Pool : PushFront(n, c)
  \/ \E n, c \in Pool : \E pos \in 1..(Len(heap.children[n]) + 1) : Insert(n, pos, c)
  \/ \E n, c \in Pool : PushBackEphemeral(n, c)
  \/ \E n \in Pool : PopBack(n)
  \/ \E n \in Pool : \E first \in 1..Len(heap.children[n]) :
       \E last \in (first + 1)..(Len(heap.children[n]) + 1) : Erase(n, first, last)
  \/ \E n, b \in Pool : \E a \in Range(heap.children[n]) : Replace(n, a, b)
  \/ \E n \in Pool : \E a \in Range(heap.children[n]) : ReplaceNone(n, a)
  \/ \E n \in Pool : GetErrors(n)

SpecNode == NodeInit /\ [][NodeNext]_vars

-----------------------------------------------------------------------------
(* Pattern matching: one call of match on a tree, a node, a cursor *)

MatchInit ==
  /\ \E i \in DOMAIN Trees : heap = BuildTree(Trees[i])
  /\ \E p \in DOMAIN Pat : \E n \in Allocated(heap) :
       \E it \in 1..(Len(heap.children[n]) + 1) :
         mcall = [st |-> "call", p |-> p, n |-> n, it |-> it]
  /\ errs = <<>>
  /\ calls = <<>>
  /\ scall = NoCall
  /\ gathered = FALSE
  /\ nops = 0
  /\ PassIdle

\* rule.first->match(it, node->end(), match) on a Match without captures
DoMatch ==
  /\ mcall.st = "call"
  /\ LET r == MatchPat(heap, mcall.p, mcall.n, mcall.it, NewMatch)
     IN  mcall' = [st |-> "done", p |-> mcall.p, n |-> mcall.n, it |-> mcall.it,
                   res |-> r]
  /\ UNCHANGED <<heap, errs, gathered, nops, scall, calls, passvars>>

\* Match::operator(): what `*it->second.first` gives.  The first iterator of
\* an empty range is the position behind the range; at end() the read is
\* undefined and may give any node or none
MatchRead(h, m, name) ==
  IF name \notin DOMAIN m.captures THEN {[ret |-> Null, ub |-> FALSE]}
  ELSE IF m.captures[name].lo > Len(h.children[m.captures[name].node])
       THEN {[ret |-> x, ub |-> TRUE] : x \in Allocated(h) \cup {Null}}
       ELSE {[ret |-> h.children[m.captures[name].node][m.captures[name].lo],
              ub |-> FALSE]}

\* _(name) in the effect of a rule whose pattern has matched
IndexedRead(name) ==
  /\ mcall.st = "done" /\ ~mcall.res.div /\ mcall.res.ok
  /\ \E o \in MatchRead(heap, mcall.res.m, name) :
       mcall' = [st |-> "read", p |-> mcall.p, n |-> mcall.n, it |-> mcall.it,
                 res |-> mcall.res, name |-> name, out |-> o]
  /\ UNCHANGED <<heap, errs, gathered, nops, scall, calls, passvars>>

MatchNext ==
  \/ DoMatch
  \/ \E name \in {"x", "y"} : IndexedRead(name)

SpecMatch == MatchInit /\ [][MatchNext]_vars

-----------------------------------------------------------------------------
(* Symbol tables: scope, precedes, lookup, bind, include *)

HasFlag(h, n, f) == f \in TokenFlags(h.type[n])

RECURSIVE ScopeFrom(_, _)
RECURSIVE Depth(_, _)
RECURSIVE Up(_, _, _)
RECURSIVE Lockstep(_, _, _)
RECURSIVE LookupLoop(_, _, _, _, _, _)
RECURSIVE LookupStop(_, _, _, _, _, _)

\* the loop of NodeDef::scope: the first node from p upwards that has a table
ScopeFrom(h, p) ==
  IF p = Null THEN Null
  ELSE IF h.symtab[p].has THEN p
  ELSE ScopeFrom(h, h.parent[p])

\* a plausible bug: a node that owns a table and has no scope is its own scope
scope_or_self(h, n) ==
  IF ScopeFrom(h, h.parent[n]) = Null /\ h.symtab[n].has THEN n
  ELSE ScopeFrom(h, h.parent[n])

\* NodeDef::scope
scope(h, n) == ScopeFrom(h, h.parent[n])

\* the counting loops of same_parent: the nodes on the parent chain of t
Depth(h, t) == IF t = Null THEN 0 ELSE 1 + Depth(h, h.parent[t])

\* the adjusting loops of same_parent: i steps up the parent chain
Up(h, p, i) == IF i <= 0 THEN p ELSE Up(h, h.parent[p], i - 1)

\* a plausible bug: the nodes are compared where the depths became equal
Lockstep_none(h, p, q) == <<p, q>>

\* the last loop of same_parent: both go up until the parents are the same
Lockstep(h, p, q) ==
  IF h.parent[p] = h.parent[q] THEN <<p, q>>
  ELSE Lockstep(h, h.parent[p], h.parent[q])

\* NodeDef::same_parent
same_parent(h, this, q) ==
  Lockstep(h, Up(h, this, Depth(h, this) - Depth(h, q)),
              Up(h, q, Depth(h, q) - Depth(h, this)))

\* precedes calls find on a null parent: the two nodes have different roots
precedes_null(h, this, node) ==
  /\ same_parent(h, this, node)[1] # same_parent(h, this, node)[2]
  /\ h.parent[same_parent(h, this, node)[1]] = Null

\* the comparison of precedes on the pair same_parent returned; deref is what
\* the call on a null parent yields when it returns
PrecedesOf(h, p, q, deref) ==
  IF p = q THEN FALSE
  ELSE IF h.parent[p] = Null THEN deref
  ELSE find(h, h.parent[p], p) < find(h, h.parent[p], q)

\* NodeDef::precedes
precedes(h, this, node, deref) ==
  PrecedesOf(h, same_parent(h, this, node)[1], same_parent(h, this, node)[2], deref)

\* symbols.find(loc): the nodes bound to loc, none when the key is absent
Bindings(tab, loc) == IF loc \in DOMAIN tab.symbols THEN tab.symbols[loc] ELSE <<>>

\* symbols[loc] = entry
MapPut(symbols, loc, entry) ==
  [k \in (DOMAIN symbols) \cup {loc} |-> IF k = loc THEN entry ELSE symbols[k]]

\* the filter lookup hands to get_symbols
Selected(h, st, this, d, deref) ==
  /\ HasFlag(h, d, "lookup")
  /\ (~HasFlag(h, st, "defbeforeuse") \/ precedes(h, d, this, deref))

\* the filter reaches the call on a null parent
SelectedDerefs(h, st, this, d) ==
  /\ HasFlag(h, d, "lookup")
  /\ HasFlag(h, st, "defbeforeuse")
  /\ precedes_null(h, d, this)

\* NodeDef::get_symbols(loc, result, f) with lookup's filter
get_symbols(h, st, loc, this, deref) ==
  SelectSeq(Bindings(h.symtab[st], loc), LAMBDA d : Selected(h, st, this, d, deref))

\* a plausible bug: shadowing results do not end the walk
LookupBreaks_until_only(h, st, until, nodes) == st = until

\* the break of lookup's loop
LookupBreaks(h, st, until, nodes) ==
  \/ st = until
  \/ \E i \in DOMAIN nodes : HasFlag(h, nodes[i], "shadowing")

\* the body of lookup's loop at scope st; acc.nodes is result, acc.ub tells
\* that a call on a null parent was made
LookupLoop(h, this, st, until, acc, deref) ==
  IF st = Null THEN acc
  ELSE LookupStop(h, this, st, until,
         [nodes |-> acc.nodes \o get_symbols(h, st, h.loc[this], this, deref)
                              \o h.symtab[st].includes,
          ub    |-> \/ acc.ub
                    \/ \E i \in DOMAIN Bindings(h.symtab[st], h.loc[this]) :
                         SelectedDerefs(h, st, this,
                                        Bindings(h.symtab[st], h.loc[this])[i])],
         deref)

LookupStop(h, this, st, until, acc, deref) ==
  IF LookupBreaks(h, st, until, acc.nodes) THEN acc
  ELSE LookupLoop(h, this, scope(h, st), until, acc, deref)

\* NodeDef::lookup
lookup(h, this, until, deref) ==
  LookupLoop(h, this, scope(h, this), until, [nodes |-> <<>>, ub |-> FALSE], deref)

\* a plausible bug: only the bindings that were there before are examined
BindReturns_earlier_only(h, entry) ==
  ~\E i \in 1..(Len(entry) - 1) : HasFlag(h, entry[i], "shadowing")

\* the value bind returns for the entry it has just extended
BindReturns(h, entry) ==
  \/ Len(entry) = 1
  \/ ~\E i \in DOMAIN entry : HasFlag(h, entry[i], "shadowing")

\* the part of bind after the scope was found
BindIn(h, st, this, loc) ==
  [h     |-> [h EXCEPT !.symtab[st].symbols =
                         MapPut(@, loc, Bindings(h.symtab[st], loc) \o <<this>>)],
   threw |-> FALSE,
   ret   |-> BindReturns(h, Bindings(h.symtab[st], loc) \o <<this>>)]

\* NodeDef::bind
bind(h, this, loc) ==
  IF scope(h, this) = Null THEN [h |-> h, threw |-> TRUE, ret |-> FALSE]
  ELSE BindIn(h, scope(h, this), this, loc)

\* NodeDef::include
include(h, this) ==
  IF scope(h, this) = Null THEN [h |-> h, threw |-> TRUE]
  ELSE [h     |-> [h EXCEPT !.symtab[scope(h, this)].includes = Append(@, this)],
        threw |-> FALSE]

-----------------------------------------------------------------------------
(* Binding and looking up on a tree *)

\* the number of bind, include and pop_back calls the symbol specification explores
MaxSymOps == 2

\* the two names of the symbol trees
NameX == <<1, 1>>
NameY == <<2, 2>>

\* the trees the symbol specification starts from, and the location of each
\* node in the order the nodes are created
SymTrees ==
  << [tree  |-> N("Top", <<N("Function", <<N("Let", <<L("Def")>>), L("Ident"),
                   N("Block", <<L("Def")>>), L("Def")>>)>>),
      names |-> <<NameY, NameY, NameX, NameX, NameX, NameY, NameX, NameX>>],
     [tree  |-> N("Top", <<L("Def"),
                   N("Block", <<L("Let"), L("Def"), L("Ident")>>), L("Field")>>),
      names |-> <<NameY, NameX, NameY, NameX, NameX, NameX, NameX>>]
  >>

\* NodeDef::create(type, location) with the locations of the symbol trees
Named(h, names) ==
  [h EXCEPT !.loc = [n \in Cells |-> IF n <= Len(names) THEN names[n] ELSE h.loc[n]]]

SymInit ==
  /\ \E i \in DOMAIN SymTrees :
       heap = Named(BuildTree(SymTrees[i].tree), SymTrees[i].names)
  /\ errs = <<>>
  /\ calls = <<>>
  /\ gathered = FALSE
  /\ nops = 0
  /\ mcall = NoCall
  /\ scall = NoCall
  /\ PassIdle

\* the scopes lookup from n passes through
EnclosingScopes(h, n) == {s \in Ancestors(h, n) : h.symtab[s].has}

\* n->bind(loc)
Bind(n, loc) ==
  /\ nops < MaxSymOps
  /\ heap' = bind(heap, n, loc).h
  /\ scall' = [st |-> "bind", n |-> n, loc |-> loc,
               threw |-> bind(heap, n, loc).threw, ret |-> bind(heap, n, loc).ret]
  /\ nops' = nops + 1
  /\ UNCHANGED <<errs, gathered, mcall, calls, passvars>>

\* n->include()
Include(n) ==
  /\ nops < MaxSymOps
  /\ heap' = include(heap, n).h
  /\ scall' = [st |-> "include", n |-> n, threw |-> include(heap, n).threw]
  /\ nops' = nops + 1
  /\ UNCHANGED <<errs, gathered, mcall, calls, passvars>>

\* a rewrite takes the last child of n out of the tree
SymPopBack(n) ==
  /\ nops < MaxSymOps
  /\ heap.children[n] # <<>>
  /\ heap' = pop_back(heap, n)
  /\ scall' = NoCall
  /\ nops' = nops + 1
  /\ UNCHANGED <<errs, gathered, mcall, calls, passvars>>

\* n->lookup(until); out is what a call of find on a null parent does: it
\* returns true, returns false, or ends the program.  A lookup that follows a
\* lookup on the same tree returns what the first returned and is left out.
Lookup(n, until, out) ==
  /\ scall.st # "lookup"
  /\ lookup(heap, n, until, FALSE).ub \/ out = "false"
  /\ scall' = [st |-> "lookup", n |-> n, until |-> until,
               nodes   |-> IF out = "crash" THEN <<>>
                           ELSE lookup(heap, n, until, out = "true").nodes,
               ub      |-> lookup(heap, n, until, FALSE).ub,
               crashed |-> out = "crash"]
  /\ UNCHANGED <<heap, errs, gathered, nops, mcall, calls, passvars>>

SymNext ==
  \/ \E n \in Allocated(heap) : \E loc \in {NameX, NameY} : Bind(n, loc)
  \/ \E n \in Allocated(heap) : Include(n)
  \/ \E n \in Allocated(heap) : SymPopBack(n)
  \/ \E n \in Allocated(heap) : \E until \in {Null} \cup EnclosingScopes(heap, n) :
       \E out \in {"true", "false", "crash"} : Lookup(n, until, out)

SpecSym == SymInit /\ [][SymNext]_vars

-----------------------------------------------------------------------------
(* Fresh names *)

RECURSIVE Digits(_)

\* std::to_string of a size_t: the decimal digits, as a string of characters
Digits(k) ==
  IF k < 10 THEN <<SubSeq("0123456789", k + 1, k + 1)>>
  ELSE Digits(k \div 10) \o <<SubSeq("0123456789", (k % 10) + 1, (k % 10) + 1)>>

\* the node fresh goes to: this when it is Top, else parent(Top)
TopOf(h, n) ==
  IF h.type[n] = "Top" THEN n
  ELSE CHOOSE a \in Ancestors(h, n) :
         /\ h.type[a] = "Top"
         /\ \A b \in Ancestors(h, n) : h.type[b] = "Top" => (b = a \/ b \in Ancestors(h, a))

\* NodeDef::fresh and SymtabDef::fresh: prefix + "$" + to_string(next_id++)
fresh(h, n, prefix) ==
  [h    |-> [h EXCEPT !.symtab[TopOf(h, n)].next_id = @ + 1],
   name |-> prefix \o <<"$">> \o Digits(h.symtab[TopOf(h, n)].next_id)]

\* a plausible bug: clearing starts the names again
clear_all(tab) == IF tab.has THEN NewSymtab ELSE tab

\* SymtabDef::clear
clear(tab) == [tab EXCEPT !.symbols = NoSymtab.symbols, !.includes = <<>>]

\* NodeDef::clear_symbols
clear_symbols(h, n) ==
  IF h.symtab[n].has THEN [h EXCEPT !.symtab[n] = clear(@)] ELSE h

\* the number of fresh and clear_symbols calls the fresh-name specification
\* explores, after at most MaxSymOps calls of bind and include
MaxFreshOps == 3

FreshInit ==
  /\ heap = BuildTree(N("Top", <<N("Block", <<L("Def")>>)>>))
  /\ errs = <<>>
  /\ calls = <<>>
  /\ gathered = FALSE
  /\ nops = 0
  /\ mcall = NoCall
  /\ scall = NoCall
  /\ PassIdle

\* n->fresh(prefix)
Fresh(n, prefix) ==
  /\ nops < MaxFreshOps
  /\ heap' = fresh(heap, n, prefix).h
  /\ calls' = Append(calls, fresh(heap, n, prefix).name)
  /\ nops' = nops + 1
  /\ UNCHANGED <<errs, gathered, mcall, scall, passvars>>

\* n->clear_symbols()
ClearSymbols(n) ==
  /\ nops < MaxFreshOps
  /\ heap' = clear_symbols(heap, n)
  /\ nops' = nops + 1
  /\ UNCHANGED <<errs, gathered, mcall, scall, calls, passvars>>

FreshNext ==
  \/ \E n \in Allocated(heap) :
       \E prefix \in {<<>>, <<"a">>, <<"a", "$", "0">>} : Fresh(n, prefix)
  \/ \E n \in Allocated(heap) : ClearSymbols(n)
  \/ \E n \in Allocated(heap) : \E loc \in {NameX, NameY} : Bind(n, loc)
  \/ \E n \in Allocated(heap) : Include(n)

SpecFresh == FreshInit /\ [][FreshNext]_vars

-----------------------------------------------------------------------------
(* Queries on a built tree: precedes, common_parent, clone, traverse *)

\* a plausible bug: the node below the common parent is returned
common_parent_below(h, this, node) == same_parent(h, this, node)[1]

\* NodeDef::common_parent
common_parent(h, this, node) ==
  IF same_parent(h, this, node)[1] = same_parent(h, this, node)[2]
  THEN same_parent(h, this, node)[1]
  ELSE h.parent[same_parent(h, this, node)[1]]

RECURSIVE clone(_, _)
RECURSIVE CloneKids(_, _, _)
RECURSIVE equals(_, _, _)

\* a plausible bug: the new node takes the children of the node it copies
clone_shallow(h, n) ==
  [h    |-> push_back_range(create(h, FreshCell(h), h.type[n], h.loc[n]),
                            FreshCell(h), h.children[n]),
   node |-> FreshCell(h)]

\* NodeDef::clone
clone(h, n) ==
  [h    |-> CloneKids(create(h, FreshCell(h), h.type[n], h.loc[n]), FreshCell(h),
                      h.children[n]),
   node |-> FreshCell(h)]

\* the loop of clone: node->push_back(child->clone())
CloneKids(h, node, kids) ==
  IF kids = <<>> THEN h
  ELSE CloneKids(push_back(clone(h, Head(kids)).h, node, clone(h, Head(kids)).node),
                 node, Tail(kids))

\* NodeDef::equals
equals(h, this, node) ==
  /\ h.type[this] = h.type[node]
  /\ ("print" \notin TokenFlags(h.type[this]) \/ h.loc[this] = h.loc[node])
  /\ Len(h.children[this]) = Len(h.children[node])
  /\ \A i \in DOMAIN h.children[this] :
        equals(h, h.children[this][i], h.children[node][i])

\* the number of clone calls the clone specification explores
MaxClones == 2

\* n->clone(), when the heap of the model has the cells for it
Clone(n) ==
  /\ nops < MaxClones
  /\ Cardinality(Subtree(heap, n)) <= Cardinality(Cells \ Allocated(heap))
  /\ heap' = clone(heap, n).h
  /\ scall' = [st |-> "clone", n |-> n, ret |-> clone(heap, n).node]
  /\ nops' = nops + 1
  /\ UNCHANGED <<errs, gathered, mcall, calls, passvars>>

RECURSIVE TraverseLoop(_, _, _, _)

\* the while loop of traverse: path holds the pairs (node, it), made what was
\* called so far; pre returns true on the nodes whose tag is not in reject
TraverseLoop(h, path, reject, made) ==
  IF path = <<>> THEN made
  ELSE IF path[Len(path)].it <= Len(h.children[path[Len(path)].node])
  THEN IF h.type[h.children[path[Len(path)].node][path[Len(path)].it]] \notin reject
       THEN TraverseLoop(h,
              Append([path EXCEPT ![Len(path)].it = @ + 1],
                     [node |-> h.children[path[Len(path)].node][path[Len(path)].it],
                      it |-> 1]),
              reject,
              Append(made, <<"pre", h.children[path[Len(path)].node][path[Len(path)].it]>>))
       ELSE TraverseLoop(h, [path EXCEPT ![Len(path)].it = @ + 1], reject,
              Append(made, <<"pre", h.children[path[Len(path)].node][path[Len(path)].it]>>))
  ELSE TraverseLoop(h, SubSeq(path, 1, Len(path) - 1), reject,
                    Append(made, <<"post", path[Len(path)].node>>))

\* NodeDef::traverse(pre, post): the calls it makes, in order
traverse(h, root, reject) ==
  IF h.type[root] \in reject THEN <<<<"pre", root>>>>
  ELSE Append(TraverseLoop(h, <<[node |-> root, it |-> 1]>>, reject, <<<<"pre", root>>>>),
              <<"post", root>>)

\* n->traverse(pre, post) with a pre that turns down the tags in reject
Traverse(n, reject) ==
  /\ calls' = traverse(heap, n, reject)
  /\ scall' = [st |-> "traverse", n |-> n, reject |-> reject]
  /\ UNCHANGED <<heap, errs, gathered, nops, mcall, passvars>>

\* n->replace(node1, node2) on a built tree, node2 possibly null; threw tells
\* that the call ended with the exception "Node not found"
ReplaceCall(n, node1, node2) ==
  /\ scall.st = "none"
  /\ IF node2 = Null THEN TRUE ELSE n \notin Subtree(heap, node2)
  /\ heap' = replace(heap, n, node1, node2)
  /\ scall' = [st |-> "replace", n |-> n, node1 |-> node1, node2 |-> node2,
               threw |-> find(heap, n, node1) > Len(heap.children[n])]
  /\ UNCHANGED <<errs, gathered, nops, mcall, calls, passvars>>

QueryInit ==
  /\ \/ \E i \in DOMAIN Trees : heap = BuildTree(Trees[i])
     \/ heap = BuildTree(N("Top", <<N("Group", <<L("A"), L("B")>>),
                                    N("Group", <<N("Group", <<L("D")>>), L("A")>>)>>))
     \/ \E i \in DOMAIN SymTrees :
          heap = Named(BuildTree(SymTrees[i].tree), SymTrees[i].names)
  /\ errs = <<>>
  /\ calls = <<>>
  /\ gathered = FALSE
  /\ nops = 0
  /\ mcall = NoCall
  /\ scall = NoCall
  /\ PassIdle

\* a->precedes(b), both nodes of the tree
CallPrecedes(a, b) ==
  /\ scall' = [st |-> "precedes", a |-> a, b |-> b, ret |-> precedes(heap, a, b, FALSE)]
  /\ UNCHANGED <<heap, errs, gathered, nops, mcall, calls, passvars>>

\* a->common_parent(b), both nodes of the tree
CallCommonParent(a, b) ==
  /\ scall' = [st |-> "common_parent", a |-> a, b |-> b, ret |-> common_parent(heap, a, b)]
  /\ UNCHANGED <<heap, errs, gathered, nops, mcall, calls, passvars>>

QueryNext ==
  \/ \E a, b \in Subtree(heap, Root) : CallPrecedes(a, b)
  \/ \E a, b \in Subtree(heap, Root) : CallCommonParent(a, b)

SpecQuery == QueryInit /\ [][QueryNext]_vars

CloneNext == \E n \in Subtree(heap, Root) : Clone(n)

SpecClone == QueryInit /\ [][CloneNext]_vars

TraverseNext ==
  \E n \in Subtree(heap, Root) :
    \E reject \in {{}, {"Top"}, {"Group"}, {"Block"}, {"Lift", "Error"}} : Traverse(n, reject)

SpecTraverse == QueryInit /\ [][TraverseNext]_vars

ReplaceNext ==
  \E n, node1 \in Allocated(heap) : \E node2 \in Allocated(heap) \cup {Null} :
    ReplaceCall(n, node1, node2)

SpecReplace == QueryInit /\ [][ReplaceNext]_vars

-----------------------------------------------------------------------------
(* NodeDef::~NodeDef.  Node is std::shared_ptr<NodeDef>: a node is destroyed *)
(* when the last Node that points to it goes away.  The owners of a node are *)
(* the child vectors, the symbol tables, the vectors on the work list, the   *)
(* vectors and tables being destroyed, and the Nodes outside the tree.       *)

Occurs(s, n) == Cardinality({i \in DOMAIN s : s[i] = n})

RECURSIVE Flatten(_)
Flatten(ss) == IF ss = <<>> THEN <<>> ELSE Head(ss) \o Flatten(Tail(ss))

RECURSIVE SumOver(_, _, _)
SumOver(S, F(_), n) ==
  IF S = {} THEN 0
  ELSE LET x == CHOOSE y \in S : TRUE IN Occurs(F(x), n) + SumOver(S \ {x}, F, n)

\* the Nodes a SymtabDef holds: symbols and includes
RECURSIVE SymbolNodes(_, _)
SymbolNodes(symbols, keys) ==
  IF keys = {} THEN <<>>
  ELSE LET k == CHOOSE l \in keys : TRUE
       IN  symbols[k] \o SymbolNodes(symbols, keys \ {k})

SymtabNodes(tab) == SymbolNodes(tab.symbols, DOMAIN tab.symbols) \o tab.includes

\* shared_ptr::use_count of the node n
use_count(h, wl, st, rf, n) ==
  LET Kids(m) == h.children[m]
      Syms(m) == SymtabNodes(h.symtab[m])
      Held(k) == st[k].nodes \o st[k].syms
  IN  SumOver(Cells, Kids, n) + SumOver(Cells, Syms, n)
      + Occurs(Flatten(wl), n) + SumOver(DOMAIN st, Held, n)
      + (IF n \in rf THEN 1 ELSE 0)

\* an activation of ~NodeDef on n, at its first statement
Dtor(n) == [node |-> n, ph |-> "body", nodes |-> <<>>, syms |-> <<>>]

\* the activations after a Node to c has gone away: ~NodeDef is entered on c
\* when that was the last one
Released(h, wl, st, rf, c) ==
  IF use_count(h, wl, st, rf, c) = 0 THEN Append(st, Dtor(c)) ELSE st

\* the trees that are destroyed: built trees, and trees whose nodes are bound
\* in the symbol table of their scope
BoundTrees ==
  << [tree |-> SymTrees[1].tree, bound |-> <<2, 3, 4, 6, 7, 8>>],
     [tree |-> SymTrees[1].tree, bound |-> <<3, 7>>],
     [tree |-> SymTrees[2].tree, bound |-> <<2, 3, 4, 5>>],
     [tree |-> N("Top", <<N("Function", <<L("Def")>>)>>), bound |-> <<2, 3>>],
     [tree |-> N("Top", <<N("Block", <<N("Block", <<N("Block", <<L("Def")>>)>>)>>)>>),
      bound |-> <<>>] >>

RECURSIVE BindAll(_, _)
BindAll(h, ns) ==
  IF ns = <<>> THEN h ELSE BindAll(bind(h, Head(ns), NameX).h, Tail(ns))

DestroyInit ==
  /\ \/ \E i \in DOMAIN Trees : heap = BuildTree(Trees[i])
     \/ \E i \in DOMAIN BoundTrees :
          heap = BindAll(BuildTree(BoundTrees[i].tree), BoundTrees[i].bound)
  /\ errs = <<>>
  /\ calls = <<>>
  /\ gathered = FALSE
  /\ nops = 0
  /\ mcall = NoCall
  /\ scall = NoCall
  /\ rules = <<>>
  /\ dirn = [topdown |-> TRUE, bottomup |-> FALSE, once |-> FALSE]
  /\ pc = "idle"
  /\ stack = <<>>
  /\ match = NewMatch
  /\ changes = 0
  /\ changes_sum = 0
  /\ count = 0
  /\ log = <<>>
  /\ heap0 = heap
  /\ work_list = <<>>
  /\ recursive = FALSE
  /\ \E x \in Allocated(heap) : refs = {Root, x}

\* the variables the destruction of nodes leaves alone
keptvars == <<errs, gathered, nops, mcall, scall, calls, rules, dirn, pc, match, changes,
              changes_sum, count, log, heap0>>

\* a Node outside the tree that points to n goes out of scope
Reset(n) ==
  /\ stack = <<>>
  /\ n \in refs
  /\ refs' = refs \ {n}
  /\ stack' = Released(heap, work_list, stack, refs \ {n}, n)
  /\ UNCHANGED <<heap, work_list, recursive, keptvars>>

\* ~NodeDef: work_list.push_back(std::move(children)); if (recursive) return;
\* recursive = true.  After the return the members are destroyed, symtab_
\* among them.
DtorBody ==
  /\ stack # <<>> /\ TopFrame.ph = "body"
  /\ work_list' = Append(work_list, heap.children[TopFrame.node])
  /\ IF recursive
     THEN /\ heap' = [heap EXCEPT !.children[TopFrame.node] = <<>>,
                                  !.symtab[TopFrame.node] = NoSymtab]
          /\ stack' = SetTop([TopFrame EXCEPT
                                !.ph = "members",
                                !.syms = SymtabNodes(heap.symtab[TopFrame.node])])
          /\ UNCHANGED recursive
     ELSE /\ heap' = [heap EXCEPT !.children[TopFrame.node] = <<>>]
          /\ stack' = SetTop([TopFrame EXCEPT !.ph = "loop"])
          /\ recursive' = TRUE
  /\ UNCHANGED <<refs, keptvars>>

\* ~NodeDef: while (!work_list.empty()) { nodes = std::move(work_list.back());
\* work_list.pop_back(); ...; after the loop recursive = false, and the
\* members are destroyed
DtorLoop ==
  /\ stack # <<>> /\ TopFrame.ph = "loop"
  /\ IF work_list = <<>>
     THEN /\ recursive' = FALSE
          /\ heap' = [heap EXCEPT !.symtab[TopFrame.node] = NoSymtab]
          /\ stack' = SetTop([TopFrame EXCEPT
                                !.ph = "members",
                                !.syms = SymtabNodes(heap.symtab[TopFrame.node])])
          /\ UNCHANGED work_list
     ELSE /\ work_list' = SubSeq(work_list, 1, Len(work_list) - 1)
          /\ stack' = SetTop([TopFrame EXCEPT !.ph = "clear",
                                              !.nodes = work_list[Len(work_list)]])
          /\ UNCHANGED <<heap, recursive>>
  /\ UNCHANGED <<refs, keptvars>>

\* ~NodeDef: nodes.clear() destroys the Nodes of the vector one by one; the
\* one that was the last owner of its node enters ~NodeDef
DtorClear ==
  /\ stack # <<>> /\ TopFrame.ph = "clear"
  /\ IF TopFrame.nodes = <<>>
     THEN stack' = SetTop([TopFrame EXCEPT !.ph = "loop"])
     ELSE stack' = Released(heap, work_list,
                            SetTop([TopFrame EXCEPT !.nodes = Tail(@)]), refs,
                            Head(TopFrame.nodes))
  /\ UNCHANGED <<heap, work_list, recursive, refs, keptvars>>

\* the destruction of symtab_ after the body of ~NodeDef: the Nodes of the
\* table are destroyed one by one, in an order the containers choose; then
\* the node is gone and the destructor returns
DtorMembers ==
  /\ stack # <<>> /\ TopFrame.ph = "members"
  /\ IF TopFrame.syms = <<>>
     THEN /\ heap' = [heap EXCEPT !.type[TopFrame.node] = Free]
          /\ stack' = Callers
     ELSE /\ \E i \in DOMAIN TopFrame.syms :
               stack' = Released(heap, work_list,
                                 SetTop([TopFrame EXCEPT !.syms = RemoveRange(@, i, i + 1)]),
                                 refs, TopFrame.syms[i])
          /\ UNCHANGED heap
  /\ UNCHANGED <<work_list, recursive, refs, keptvars>>

DestroyNext ==
  \/ \E n \in Cells : Reset(n)
  \/ DtorBody
  \/ DtorLoop
  \/ DtorClear
  \/ DtorMembers

SpecDestroy == DestroyInit /\ [][DestroyNext]_vars

-----------------------------------------------------------------------------
(* Vocabulary of the properties *)

RECURSIVE ApplyReach(_, _)
RECURSIVE NearestWithTag(_, _, _)
RECURSIVE Preorder(_, _)
RECURSIVE PreorderAll(_, _)
RECURSIVE Lifted(_, _)
RECURSIVE LiftedFrom(_, _, _)
RECURSIVE Payloads(_, _)

Last(s) == s[Len(s)]

\* the nodes a call of apply on n visits
ApplyReach(h, n) ==
  {n} \cup UNION { ApplyReach(h, c) : c \in {d \in Range(h.children[n]) : ~Skipped(h, d)} }

\* the least rule that matches at child position it of n on a Match without
\* captures and whose effect is not NoChange; 0 when there is none
FirstEffective(h, n, it) ==
  LET ks == {k \in DOMAIN rules :
               /\ rules[k].eff.k # "nochange"
               /\ MatchPat(h, rules[k].pat, n, it, NewMatch).ok}
  IN  IF ks = {} THEN 0 ELSE CHOOSE k \in ks : \A j \in ks : k <= j

\* one further apply over the root would fire a rule
Fireable(h) ==
  \E n \in ApplyReach(h, Root) : \E it \in DOMAIN h.children[n] :
     /\ ~Skipped(h, h.children[n][it])
     /\ FirstEffective(h, n, it) # 0

HasError(h, n) == \E d \in Subtree(h, n) : h.type[d] = "Error"

NoLift(h) == \A n \in Subtree(h, Root) : h.type[n] # "Lift"

\* the nearest node with the tag, going up the parent pointers from n
NearestWithTag(h, n, tag) ==
  IF n = Null THEN Null
  ELSE IF h.type[n] = tag THEN n
  ELSE NearestWithTag(h, h.parent[n], tag)

\* the ancestor the envelope l is addressed to
LiftTarget(h, l) == NearestWithTag(h, h.parent[l], h.type[h.children[l][1]])

\* the nodes below and including n in document order
Preorder(h, n) == <<n>> \o PreorderAll(h, h.children[n])

PreorderAll(h, cs) ==
  IF cs = <<>> THEN <<>> ELSE Preorder(h, Head(cs)) \o PreorderAll(h, Tail(cs))

\* the envelopes in the subtree of c that are addressed to n, in document order
LiftsFor(h, c, n) ==
  SelectSeq(Preorder(h, c), LAMBDA l : h.type[l] = "Lift" /\ LiftTarget(h, l) = n)

\* what the children of n are to be once every envelope of h is delivered:
\* each child that is no envelope, preceded by the payloads that came out of it
Lifted(h, n) == LiftedFrom(h, n, h.children[n])

LiftedFrom(h, n, cs) ==
  IF cs = <<>> THEN <<>>
  ELSE Payloads(h, LiftsFor(h, Head(cs), n))
         \o (IF h.type[Head(cs)] = "Lift" THEN <<>> ELSE <<Head(cs)>>)
         \o LiftedFrom(h, n, Tail(cs))

Payloads(h, ls) ==
  IF ls = <<>> THEN <<>> ELSE Tail(Lifted(h, Head(ls))) \o Payloads(h, Tail(ls))

\* the nodes step puts where the matched range was, from what the effect returned
Replacement(h, enode) ==
  IF enode = Null THEN <<>>
  ELSE IF h.type[enode] = "Seq" THEN h.children[enode]
  ELSE <<enode>>

\* n is an Error node or below one
InError(h, n) ==
  h.type[n] = "Error" \/ \E a \in Ancestors(h, n) : h.type[a] = "Error"

ZeroWidth(p) == Pat[p].k \in {"First", "Last", "In", "Pred", "NegPred"}

-----------------------------------------------------------------------------
(* Claims *)

\* C10: a failed match leaves the cursor exactly where it was before the
\* attempt, and the zero-width patterns Start, End, In, ++P and --P leave it
\* unmoved on success as well.

C10_CursorRestored ==
  (mcall.st = "done" /\ ~mcall.res.div) =>
     /\ ~mcall.res.ok => mcall.res.it = mcall.it
     /\ ZeroWidth(mcall.p) => mcall.res.it = mcall.it

\* a sequence whose first part consumed a node fails on its second part
C10_Witness ==
  /\ mcall.st = "done"
  /\ Pat[mcall.p].k = "Seq"
  /\ ~mcall.res.ok
  /\ MatchPat(heap, Pat[mcall.p].a, mcall.n, mcall.it, NewMatch).ok
  /\ MatchPat(heap, Pat[mcall.p].a, mcall.n, mcall.it, NewMatch).it > mcall.it


\* C1: when run on a pass without once returns normally, the tree is at a
\* fixed point of the rule set: one further apply over the root would fire
\* no rule.
C1_FixedPoint == (pc = "done" /\ ~dirn.once) => ~Fireable(heap)

\* C2: after any sequence of mutators, every node whose parent pointer is P
\* appears in P's child list, at exactly one position.
C2_ParentChild ==
  \A n \in Allocated(heap) :
     heap.parent[n] # Null => Count(heap.children[heap.parent[n]], n) = 1

\* C3, as stated: contains_error of a node is true exactly when the node
\* itself or some descendant of it has tag Error.
C3_FlagExact ==
  \A n \in Allocated(heap) : heap.cerr[n] <=> HasError(heap, n)

\* C3: until get_errors has run, every node that an Error node reaches by
\* going up the parent pointers has contains_error set.
C3_FlagOnAncestors ==
  ~gathered =>
     \A e \in Allocated(heap) :
        heap.type[e] = "Error" => \A a \in Ancestors(heap, e) : heap.cerr[a]

C3_Witness ==
  /\ ~gathered
  /\ \E e \in Allocated(heap) :
        /\ heap.type[e] = "Error"
        /\ heap.parent[e] # Null
        /\ heap.parent[heap.parent[e]] # Null

\* C4: when run returns normally no node with tag Lift remains anywhere in
\* the tree; and if after an apply some Lift envelope has no ancestor, from
\* its parent up to the root, with the tag of its first child, run fails
\* instead of returning.
C4_NoLiftRemains ==
  /\ [](pc = "done" => NoLift(heap))
  /\ [][(/\ pc = "lift"
         /\ \E l \in Subtree(heap, Root) :
               heap.type[l] = "Lift" /\ LiftTarget(heap, l) = Null)
        => pc' = "failed"]_vars

C4_Witness ==
  /\ pc = "done"
  /\ \E l \in Allocated(heap) : heap.type[l] = "Lift" /\ l \notin Subtree(heap, Root)

\* C5: lift removes each Lift node from its parent and splices the Lift's
\* children other than the first into the nearest ancestor with the tag of
\* that first child, and into no other node; payloads delivered to the same
\* node stand in the document order of their envelopes, before the child
\* whose subtree they came out of.
C5_LiftSplices ==
  [][RunLift => \A n \in Subtree(heap, Root) : heap'.children[n] = Lifted(heap, n)]_vars

C5_Witness ==
  /\ pc \in {"start", "done"}
  /\ \E n \in Subtree(heap, Root) :
        Cardinality({l \in Allocated(heap) :
                       /\ heap.type[l] = "Lift"
                       /\ Len(heap.children[l]) >= 2
                       /\ heap.children[l][2] \in Range(heap.children[n])}) >= 2

\* C6, as stated: when a rule fires on [start, it) of N's children, N's
\* children afterwards are those before start, the replacement, and those
\* from it on; every inserted node has parent N and every removed node whose
\* parent was N has a null parent.
C6_SpliceAllDetached ==
  [][(ApplyStep /\ log' # <<>> /\ Last(log').fired) =>
       LET a    == Last(log')
           node == TopFrame.node
           old  == heap.children[node]
           new  == Replacement(heap', a.node)
       IN  /\ heap'.children[node] =
                SubSeq(old, 1, a.start - 1) \o new \o SubSeq(old, a.hi, Len(old))
           /\ \A c \in Range(new) : heap'.parent[c] = node
           /\ \A c \in Range(SubSeq(old, a.start, a.hi - 1)) :
                 heap.parent[c] = node => heap'.parent[c] = Null]_vars

\* C6: when a rule fires on [start, it) of N's children, N's children
\* afterwards are those before start, the replacement, and those from it on;
\* every inserted node has parent N, and every removed node whose parent was
\* N and that is not part of the replacement has a null parent.
C6_Splice ==
  [][(ApplyStep /\ log' # <<>> /\ Last(log').fired) =>
       LET a    == Last(log')
           node == TopFrame.node
           old  == heap.children[node]
           new  == Replacement(heap', a.node)
       IN  /\ heap'.children[node] =
                SubSeq(old, 1, a.start - 1) \o new \o SubSeq(old, a.hi, Len(old))
           /\ \A c \in Range(new) : heap'.parent[c] = node
           /\ \A c \in Range(SubSeq(old, a.start, a.hi - 1)) :
                 (/\ heap.parent[c] = node
                  /\ \A r \in Range(new) : c \notin Subtree(heap', r))
                 => heap'.parent[c] = Null]_vars

C6_Witness ==
  /\ pc = "apply" /\ log # <<>>
  /\ Last(log).fired
  /\ Last(log).node # Null
  /\ heap.type[Last(log).node] = "Seq"
  /\ Last(log).hi - Last(log).start = 2

\* C7: when a rule's pattern matches but its effect returns NoChange, the
\* tree is left unchanged, the cursor is back where that rule started, the
\* remaining rules are tried in order at that same position, and the change
\* count is not incremented by that rule.
C7_NoChange ==
  [][ApplyStep =>
       /\ \A j \in 1..(Len(log') - 1) :
             log'[j].node = NoChangeNode =>
                /\ log'[j + 1].rule = log'[j].rule + 1
                /\ log'[j + 1].start = log'[j].start
       /\ (/\ \E j \in DOMAIN log' : log'[j].node = NoChangeNode
           /\ ~Last(log').fired)
          => /\ heap' = heap
             /\ stack'[Len(stack)].changes = TopFrame.changes
             /\ stack'[Len(stack)].it =
                  IF dirn.topdown THEN TopFrame.it ELSE TopFrame.it + 1
       /\ (/\ \E j \in DOMAIN log' : log'[j].node = NoChangeNode
           /\ Last(log').fired)
          => stack'[Len(stack)].changes =
                TopFrame.changes + Len(Replacement(heap', Last(log').node))]_vars

C7_Witness ==
  /\ pc = "apply"
  /\ \E j \in 1..(Len(log) - 1) : log[j].node = NoChangeNode

\* C8: at each cursor position step tries the rules in their declared order
\* and at most one fires, the first whose pattern matches and whose effect is
\* not NoChange; no later rule is evaluated in that step; and the effect of a
\* rule sees the captures of its own pattern only, none of an earlier attempt.
C8_RuleOrder ==
  [][ApplyStep =>
       LET k == FirstEffective(heap, TopFrame.node, TopFrame.it)
       IN  /\ \A j \in DOMAIN log' : log'[j].rule = j
           /\ \A j \in DOMAIN log' : log'[j].fired => j = Len(log')
           /\ IF k = 0
              THEN Len(log') = Len(rules) /\ \A j \in DOMAIN log' : ~log'[j].fired
              ELSE Len(log') = k /\ log'[k].fired
           /\ \A j \in DOMAIN log' :
                 log'[j].matched =>
                    log'[j].captures =
                      MatchPat(heap, rules[j].pat, TopFrame.node, TopFrame.it,
                               NewMatch).m.captures]_vars

C8_Witness ==
  /\ pc = "apply" /\ Len(log) >= 2
  /\ Last(log).fired
  /\ log[1].matched
  /\ DOMAIN log[1].captures # DOMAIN Last(log).captures

\* C9, as stated: running a pass with zero rules on any tree leaves the tree
\* structurally unchanged and returns changes = 0 and iterations = 1.
C9_ZeroRulesAnyTree ==
  (rules = <<>> /\ pc # "start" /\ pc # "apply" /\ pc # "lift") =>
     /\ pc = "done"
     /\ heap.children = heap0.children
     /\ heap.type = heap0.type
     /\ changes_sum = 0
     /\ count = 1

\* C9: running a pass with zero rules on a tree that holds no Lift node
\* leaves the tree structurally unchanged and returns changes = 0 and
\* iterations = 1.
C9_ZeroRules ==
  (rules = <<>> /\ NoLift(heap0) /\ pc # "start" /\ pc # "apply" /\ pc # "lift") =>
     /\ pc = "done"
     /\ heap.children = heap0.children
     /\ heap.type = heap0.type
     /\ changes_sum = 0
     /\ count = 1

C9_Witness ==
  /\ rules = <<>> /\ pc = "done" /\ NoLift(heap0)
  /\ HasError(heap0, Root)

\* C11: when two captures under the same name both succeed during one
\* match, the Match afterwards holds the later one in the textual order of the
\* pattern: in T(A)[x] * T(B)[x] and in T(A)[x] * (T(B)[x] * T(D)) the node
\* matched by T(B), and in (T(A)[x] * T(B))++ the node matched by T(A) in the
\* last iteration.
C11_LaterCaptureWins ==
  (mcall.st = "done" /\ mcall.res.ok /\ ~mcall.res.div) =>
     /\ mcall.p \in {40, 43} =>
           mcall.res.m.captures["x"] = NodeRange(mcall.n, mcall.it + 1, mcall.it + 2)
     /\ (mcall.p = 42 /\ mcall.res.it > mcall.it) =>
           mcall.res.m.captures["x"] =
              NodeRange(mcall.n, mcall.res.it - 2, mcall.res.it - 1)

\* C12: a match that fails leaves the captures of the Match as they were
\* before the attempt; in P / Q, when P fails and Q succeeds, the Match holds
\* the captures of Q only, and in ~P a failed P contributes no capture.
C12_FailedLeavesCaptures ==
  (mcall.st = "done" /\ ~mcall.res.div) =>
     LET P  == Pat[mcall.p]
         r1 == MatchPat(heap, P.a, mcall.n, mcall.it, NewMatch)
     IN  /\ ~mcall.res.ok => mcall.res.m.captures = NoCaptures
         /\ (P.k = "Choice" /\ ~r1.ok /\ mcall.res.ok) =>
               mcall.res.m.captures =
                 MatchPat(heap, P.b, mcall.n, mcall.it, NewMatch).m.captures
         /\ (P.k = "Opt" /\ ~r1.ok) => mcall.res.m.captures = NoCaptures

C12_Witness ==
  /\ mcall.st = "done" /\ mcall.p = 45 /\ mcall.res.ok
  /\ MatchPat(heap, 18, mcall.n, mcall.it, NewMatch).ok
  /\ ~MatchPat(heap, 39, mcall.n, mcall.it, NewMatch).ok
  /\ DOMAIN mcall.res.m.captures = {"y"}

\* C13: In(Group) outside a repetition succeeds only when the parent of the
\* cursor node has tag Group; In(Group)++ succeeds when any ancestor of the
\* cursor node has tag Group.
C13_InsideAncestors ==
  (/\ mcall.st = "done" /\ ~mcall.res.div
   /\ mcall.it <= Len(heap.children[mcall.n])) =>
     LET cur == heap.children[mcall.n][mcall.it]
     IN  /\ mcall.p = 8 =>
               (mcall.res.ok <=>
                  (heap.parent[cur] # Null /\ heap.type[heap.parent[cur]] = "Group"))
         /\ mcall.p = 30 =>
               (mcall.res.ok <=>
                  \E a \in Ancestors(heap, cur) : heap.type[a] = "Group")

\* C14: P << Q succeeds only if P matches exactly one node X at the cursor
\* and Q matches starting at X's first child; on success the cursor is
\* immediately after X, on failure it is where it was; so P << (Q * End)
\* succeeds only when Q consumes all of X's children.
C14_Descend ==
  (/\ mcall.st = "done" /\ ~mcall.res.div
   /\ Pat[mcall.p].k = "Children") =>
     LET P  == Pat[mcall.p]
         r1 == MatchPat(heap, P.a, mcall.n, mcall.it, NewMatch)
     IN  /\ ~mcall.res.ok => mcall.res.it = mcall.it
         /\ mcall.res.ok =>
              /\ r1.ok /\ r1.it = mcall.it + 1
              /\ mcall.res.it = mcall.it + 1
              /\ LET X  == heap.children[mcall.n][mcall.it]
                     r2 == MatchPat(heap, P.b, X, 1, r1.m)
                 IN  /\ r2.ok
                     /\ (P.b = 6 \/ (Pat[P.b].k = "Seq" /\ Pat[P.b].b = 6)) =>
                           r2.it = Len(heap.children[X]) + 1

\* C15: during a pass no node inside a subtree rooted at an Error node is
\* matched, captured or rewritten: step is never called at an Error or Lift
\* child nor on the children of a node in an Error subtree, the range a rule
\* matches holds no Error node, and no captured node is an Error node or
\* below one.
C15_ErrorOpaque ==
  [][ApplyStep =>
       /\ ~Skipped(heap, heap.children[TopFrame.node][TopFrame.it])
       /\ ~InError(heap, TopFrame.node)
       /\ \A j \in DOMAIN log' :
             log'[j].matched =>
                /\ \A i \in log'[j].start..(log'[j].hi - 1) :
                      heap.type[heap.children[TopFrame.node][i]] # "Error"
                /\ \A name \in DOMAIN log'[j].captures :
                      \A c \in Range(CapNodes(heap, [captures_set |-> TRUE,
                                                     captures |-> log'[j].captures],
                                              name)) :
                         ~InError(heap, c)]_vars

\* C16: on a tree built by the mutators, get_errors(N) appends to its
\* output, exactly once each, every Error node of N's subtree that has no
\* Error descendant, and no other node; afterwards contains_error is false on
\* every node of N's subtree that had it set.
C16_GetErrors ==
  [][\A n \in Pool :
       (~gathered /\ GetErrors(n)) =>
          LET leaves == {e \in Subtree(heap, n) :
                           /\ heap.type[e] = "Error"
                           /\ \A d \in Subtree(heap, e) \ {e} : heap.type[d] # "Error"}
          IN  /\ Range(errs') = leaves
              /\ Len(errs') = Cardinality(leaves)
              /\ \A x \in Subtree(heap, n) : heap.cerr[x] => ~heap'.cerr[x]]_vars

RECURSIVE ScopeChain(_, _)
RECURSIVE YieldUpTo(_, _, _, _)

\* the nearest of the scopes enclosing n
NearestScope(h, n) ==
  CHOOSE a \in Ancestors(h, n) :
    /\ h.symtab[a].has
    /\ \A b \in Ancestors(h, n) : h.symtab[b].has => (b = a \/ b \in Ancestors(h, a))

\* the scopes enclosing n, nearest first
ScopeChain(h, n) ==
  IF \A a \in Ancestors(h, n) : ~h.symtab[a].has THEN <<>>
  ELSE <<NearestScope(h, n)>> \o ScopeChain(h, NearestScope(h, n))

\* what scope s gives a lookup from n: its bindings that pass the filter, then
\* its includes
ScopeYield(h, s, n) == get_symbols(h, s, h.loc[n], n, FALSE) \o h.symtab[s].includes

\* what the first k scopes of the chain give, inner scopes first
YieldUpTo(h, chain, n, k) ==
  IF k = 0 THEN <<>>
  ELSE YieldUpTo(h, chain, n, k - 1) \o ScopeYield(h, chain[k], n)

HasShadowing(h, nodes) == \E i \in DOMAIN nodes : HasFlag(h, nodes[i], "shadowing")

\* the walk ends after the k-th scope of the chain
StopsAfter(h, chain, n, until, k) ==
  chain[k] = until \/ HasShadowing(h, YieldUpTo(h, chain, n, k))

\* the number of scopes the walk visits
Visited(h, chain, n, until) ==
  IF \E k \in DOMAIN chain : StopsAfter(h, chain, n, until, k)
  THEN CHOOSE k \in DOMAIN chain :
         /\ StopsAfter(h, chain, n, until, k)
         /\ \A j \in 1..(k - 1) : ~StopsAfter(h, chain, n, until, j)
  ELSE Len(chain)

AncestorsOrSelf(h, n) == {n} \cup Ancestors(h, n)

\* A precedes B: below their common parent the branch to A is left of the
\* branch to B, and neither node is above the other
Precedes(h, A, B) ==
  \E a \in AncestorsOrSelf(h, A) : \E b \in AncestorsOrSelf(h, B) :
    /\ a # b
    /\ a \notin AncestorsOrSelf(h, B)
    /\ b \notin AncestorsOrSelf(h, A)
    /\ h.parent[a] # Null
    /\ h.parent[a] = h.parent[b]
    /\ \E i, j \in DOMAIN h.children[h.parent[a]] :
         /\ h.children[h.parent[a]][i] = a
         /\ h.children[h.parent[a]][j] = b
         /\ i < j

\* D can come into a lookup from n only as a binding of the scope s
OnlyFrom(h, s, n, D) ==
  \A t \in Range(ScopeChain(h, n)) :
    /\ D \notin Range(h.symtab[t].includes)
    /\ t # s => D \notin Range(Bindings(h.symtab[t], h.loc[n]))

\* C18: in a scope with defbeforeuse, lookup from N returns a binding D of
\* that scope only if D precedes N: a D that follows N, is N, is above N or
\* is below N is not returned from that scope.
C18_DefBeforeUse ==
  (scall.st = "lookup" /\ ~scall.crashed) =>
     \A s \in Range(ScopeChain(heap, scall.n)) :
       HasFlag(heap, s, "defbeforeuse") =>
         \A D \in Range(Bindings(heap.symtab[s], heap.loc[scall.n])) :
           (OnlyFrom(heap, s, scall.n, D) /\ D \in Range(scall.nodes)) =>
              Precedes(heap, D, scall.n)

\* the call appended this to the list of loc in the table of st and changed
\* nothing else
Appended(h, h2, st, this, loc) ==
  /\ Bindings(h2.symtab[st], loc) = Bindings(h.symtab[st], loc) \o <<this>>
  /\ \A k \in (DOMAIN h.symtab[st].symbols) \ {loc} :
        Bindings(h2.symtab[st], k) = Bindings(h.symtab[st], k)
  /\ h2.symtab[st].includes = h.symtab[st].includes
  /\ \A t \in Cells \ {st} : h2.symtab[t] = h.symtab[t]
  /\ [h2 EXCEPT !.symtab = h.symtab] = h

\* C19 as stated: bind(name) on N appends N to the list of name in N's
\* nearest enclosing scope, changing no other table, and returns false exactly
\* when a binding that was in the list before the call is shadowing.
C19_BindEarlier ==
  [][\A n \in Allocated(heap) : \A loc \in {NameX, NameY} :
       (Bind(n, loc) /\ ScopeChain(heap, n) # <<>>) =>
          /\ Appended(heap, heap', NearestScope(heap, n), n, loc)
          /\ ~scall'.threw
          /\ ~scall'.ret <=>
               HasShadowing(heap, Bindings(heap.symtab[NearestScope(heap, n)], loc))]_vars

\* C19: bind(name) on N appends N to the list of name in N's nearest
\* enclosing scope, changing no other table, and returns false exactly when
\* the list then holds more than one binding and some binding in it, N
\* included, is shadowing.
C19_Bind ==
  [][\A n \in Allocated(heap) : \A loc \in {NameX, NameY} :
       (Bind(n, loc) /\ ScopeChain(heap, n) # <<>>) =>
          /\ Appended(heap, heap', NearestScope(heap, n), n, loc)
          /\ ~scall'.threw
          /\ ~scall'.ret <=>
               /\ Bindings(heap.symtab[NearestScope(heap, n)], loc) # <<>>
               /\ HasShadowing(heap, Bindings(heap.symtab[NearestScope(heap, n)], loc)
                                     \o <<n>>)]_vars

\* a shadowing node was bound after bindings none of which is shadowing, and
\* bind returned false
C19_Witness ==
  /\ scall.st = "bind" /\ ~scall.threw /\ ~scall.ret
  /\ HasFlag(heap, scall.n, "shadowing")
  /\ Len(Bindings(heap.symtab[NearestScope(heap, scall.n)], scall.loc)) >= 2
  /\ Last(Bindings(heap.symtab[NearestScope(heap, scall.n)], scall.loc)) = scall.n
  /\ \A i \in 1..(Len(Bindings(heap.symtab[NearestScope(heap, scall.n)], scall.loc)) - 1) :
        ~HasFlag(heap, Bindings(heap.symtab[NearestScope(heap, scall.n)], scall.loc)[i],
                 "shadowing")

\* C20: bind and include on a node with no enclosing scope fail with NoScope
\* and leave every symbol table and the tree as they were.
C20_NoScope ==
  [][\A n \in Allocated(heap) :
       ScopeChain(heap, n) = <<>> =>
          /\ \A loc \in {NameX, NameY} : Bind(n, loc) => (scall'.threw /\ heap' = heap)
          /\ Include(n) => (scall'.threw /\ heap' = heap)]_vars

\* bind was called on a node outside every scope, below a node with children
C20_Witness ==
  /\ scall.st = "bind" /\ scall.threw
  /\ ScopeChain(heap, scall.n) = <<>>
  /\ \E s \in Allocated(heap) : heap.symtab[s].has /\ heap.children[s] # <<>>

\* C21: no two calls of fresh on nodes of one tree under a Top return the
\* same name, whatever the prefixes and whatever bind, include and
\* clear_symbols calls come between them: every call takes the next number,
\* and clearing the table does not start the numbers again.
C21_FreshUnique ==
  /\ \A i, j \in DOMAIN calls : i # j => calls[i] # calls[j]
  /\ heap.symtab[Root].next_id = Len(calls)
  /\ \A i \in DOMAIN calls :
        SubSeq(calls[i], Len(calls[i]) - Len(Digits(i - 1)), Len(calls[i]))
           = <<"$">> \o Digits(i - 1)

\* two calls of fresh with the same first character of the prefix, and one
\* other call, have been made
C21_Witness ==
  /\ Len(calls) = 2
  /\ SubSeq(calls[1], 1, 1) = SubSeq(calls[2], 1, 1)
  /\ nops = MaxFreshOps

\* C22: over the nodes of one tree precedes is irreflexive, asymmetric and
\* transitive, and it is false whenever one of the two nodes is an ancestor
\* of the other.
C22_StrictOrder ==
  (scall.st = "precedes" /\ scall.ret) =>
     /\ scall.a # scall.b
     /\ ~precedes(heap, scall.b, scall.a, FALSE)
     /\ scall.a \notin Ancestors(heap, scall.b)
     /\ scall.b \notin Ancestors(heap, scall.a)
     /\ \A c \in Subtree(heap, Root) :
           precedes(heap, scall.b, c, FALSE) => precedes(heap, scall.a, c, FALSE)

\* a precedes b, the two at different depths and neither a child of their
\* common parent, and b precedes a third node
C22_Witness ==
  /\ scall.st = "precedes" /\ scall.ret
  /\ common_parent(heap, scall.a, scall.b) \notin {heap.parent[scall.a], heap.parent[scall.b]}
  /\ Depth(heap, scall.a) # Depth(heap, scall.b)
  /\ \E c \in Subtree(heap, Root) : precedes(heap, scall.b, c, FALSE)

\* C23: common_parent(A, B) of two nodes of one tree is an ancestor of both,
\* a node counting as its own ancestor when it contains the other; when A
\* precedes B it is a proper ancestor of both.
C23_CommonParent ==
  scall.st = "common_parent" =>
     /\ scall.ret \in AncestorsOrSelf(heap, scall.a)
     /\ scall.ret \in AncestorsOrSelf(heap, scall.b)
     /\ scall.ret \in {scall.a, scall.b} =>
           (scall.a \in AncestorsOrSelf(heap, scall.b)
              \/ scall.b \in AncestorsOrSelf(heap, scall.a))
     /\ Precedes(heap, scall.a, scall.b) =>
           (scall.ret \in Ancestors(heap, scall.a) /\ scall.ret \in Ancestors(heap, scall.b))

\* A precedes B at another depth, and the common parent is the parent of
\* neither
C23_Witness ==
  /\ scall.st = "common_parent"
  /\ Precedes(heap, scall.a, scall.b)
  /\ Depth(heap, scall.a) # Depth(heap, scall.b)
  /\ scall.ret \notin {heap.parent[scall.a], heap.parent[scall.b]}

RECURSIVE Shape(_, _)

\* the tree below n as a term: tag, location, children in order
Shape(h, n) ==
  <<h.type[n], h.loc[n], [i \in DOMAIN h.children[n] |-> Shape(h, h.children[n][i])]>>

\* the cells of h are in h2 what they were in h
Kept(h, h2) ==
  \A x \in Allocated(h) :
    /\ h2.type[x] = h.type[x] /\ h2.loc[x] = h.loc[x]
    /\ h2.parent[x] = h.parent[x] /\ h2.children[x] = h.children[x]
    /\ h2.cerr[x] = h.cerr[x] /\ h2.clift[x] = h.clift[x]
    /\ h2.symtab[x] = h.symtab[x]

\* C24: clone() of a tree T returns a tree that equals(T), with the same
\* tags, the same locations and pairwise equal children in order, made of new
\* nodes only, and leaves T as it was.
C24_Clone ==
  [][\A n \in Subtree(heap, Root) :
       Clone(n) =>
          /\ equals(heap', scall'.ret, n)
          /\ Shape(heap', scall'.ret) = Shape(heap, n)
          /\ Subtree(heap', scall'.ret) \cap Allocated(heap) = {}
          /\ heap'.parent[scall'.ret] = Null
          /\ Kept(heap, heap')]_vars

\* a tree three levels deep with an Ident in it was cloned
C24_Witness ==
  /\ scall.st = "clone"
  /\ \E c \in Range(heap.children[scall.n]) : heap.children[c] # <<>>
  /\ \E x \in Subtree(heap, scall.n) : heap.type[x] = "Ident"

\* the positions at which f was called on x
CallsOf(made, f, x) == {i \in DOMAIN made : made[i] = <<f, x>>}

\* the nodes traverse reaches from n: n, and the children of every reached
\* node that pre accepted
Reached(h, n, reject) ==
  {x \in Subtree(h, n) :
     \A a \in Ancestors(h, x) \cap Subtree(h, n) : h.type[a] \notin reject}

\* C25: traverse calls pre exactly once on each node it reaches, parents
\* before children and children in order, goes below a node only when pre
\* returned true for it, and calls post exactly once, after all of the node's
\* descendants, on each node pre returned true for, the starting node
\* included, and never on a node pre returned false for.
C25_Traverse ==
  scall.st = "traverse" =>
     /\ \A i \in DOMAIN calls : calls[i][2] \in Reached(heap, scall.n, scall.reject)
     /\ \A x \in Reached(heap, scall.n, scall.reject) :
          /\ Cardinality(CallsOf(calls, "pre", x)) = 1
          /\ Cardinality(CallsOf(calls, "post", x))
                = IF heap.type[x] \in scall.reject THEN 0 ELSE 1
          /\ \A i \in CallsOf(calls, "pre", x) : \A j \in CallsOf(calls, "post", x) :
                /\ i < j
                /\ \A d \in Reached(heap, scall.n, scall.reject) \cap Subtree(heap, x) :
                      \A k \in CallsOf(calls, "pre", d) \cup CallsOf(calls, "post", d) :
                         i <= k /\ k <= j
          /\ \A c1, c2 \in DOMAIN heap.children[x] :
                (c1 < c2 /\ heap.type[x] \notin scall.reject) =>
                   \A i \in CallsOf(calls, "pre", heap.children[x][c1]) :
                      \A j \in CallsOf(calls, "pre", heap.children[x][c2]) : i < j

\* C26: a node is in the child list of at most one parent under the attaching
\* mutators: push_back, push_front, insert or replace of a node that is a
\* child of another parent takes it out of that parent's child list.
C26_OneParent ==
  [][\A n, c \in Pool : \A p \in Pool \ {n} :
       (/\ heap.parent[c] = p
        /\ c \in Range(heap.children[p])
        /\ \/ PushBack(n, c)
           \/ PushFront(n, c)
           \/ \E pos \in 1..(Len(heap.children[n]) + 1) : Insert(n, pos, c)
           \/ \E a \in Range(heap.children[n]) : Replace(n, a, c))
       => c \notin Range(heap'.children[p])]_vars

\* C27: N.replace(old, new) with old not in N's child list fails with
\* NotFound and leaves N's children, the parent pointers of old and new and
\* all propagation flags as they were.
C27_ReplaceNotFound ==
  [][\A n, node1 \in Allocated(heap) : \A node2 \in Allocated(heap) \cup {Null} :
       (ReplaceCall(n, node1, node2) /\ node1 \notin Range(heap.children[n])) =>
          /\ scall'.threw
          /\ heap'.children[n] = heap.children[n]
          /\ heap'.parent = heap.parent
          /\ heap'.cerr = heap.cerr /\ heap'.clift = heap.clift
          /\ heap' = heap]_vars

\* replace was called with a node that is a child of another node, and with
\* a replacement below an Error or Lift node
C27_Witness ==
  /\ scall.st = "replace" /\ scall.threw
  /\ heap.parent[scall.node1] \notin {Null, scall.n}
  /\ scall.node2 # Null
  /\ heap.type[scall.node2] \in {"Error", "Lift"}

\* C28: N.replace(old, new) with old a child of N puts new at old's index,
\* the other children and the child count unchanged, sets new.parent to N
\* and clears old.parent; N.replace(old) without a replacement is an erase of
\* old: old leaves N's children and old.parent, if it was N, is cleared.
C28_Replace ==
  [][\A n, node1 \in Allocated(heap) : \A node2 \in Allocated(heap) \cup {Null} :
       (ReplaceCall(n, node1, node2) /\ node1 \in Range(heap.children[n])) =>
          /\ ~scall'.threw
          /\ node2 # Null =>
                /\ heap'.children[n] =
                      [heap.children[n] EXCEPT ![find(heap, n, node1)] = node2]
                /\ heap'.parent[node2] = n
                /\ node1 # node2 => heap'.parent[node1] = Null
          /\ node2 = Null =>
                /\ heap'.children[n] =
                      RemoveRange(heap.children[n], find(heap, n, node1),
                                  find(heap, n, node1) + 1)
                /\ heap.parent[node1] = n => heap'.parent[node1] = Null]_vars

\* C29: an ephemerally attached child never has its parent pointer changed
\* by the envelope that holds it: push_back_ephemeral(c) on N appends c and
\* leaves every parent pointer and every propagation flag as it was, and
\* pop_back and erase on N clear the parent pointer of exactly the removed
\* children whose parent pointer is N.
C29_Ephemeral ==
  [][\A n \in Pool :
       /\ \A c \in Pool : PushBackEphemeral(n, c) =>
             /\ heap'.children[n] = Append(heap.children[n], c)
             /\ heap'.parent = heap.parent
             /\ heap'.cerr = heap.cerr /\ heap'.clift = heap.clift
       /\ PopBack(n) =>
             LET c == heap.children[n][Len(heap.children[n])]
             IN  \A d \in Cells :
                   heap'.parent[d] =
                     IF d = c /\ heap.parent[d] = n THEN Null ELSE heap.parent[d]
       /\ \A first \in 1..Len(heap.children[n]) :
            \A last \in (first + 1)..(Len(heap.children[n]) + 1) :
              Erase(n, first, last) =>
                LET gone == {heap.children[n][i] : i \in first..(last - 1)}
                IN  \A d \in Cells :
                      heap'.parent[d] =
                        IF d \in gone /\ heap.parent[d] = n THEN Null
                        ELSE heap.parent[d]]_vars

\* an Error node is held by an envelope that is not its parent and that has
\* no contains_error flag, while its parent is another node: it was attached
\* with push_back_ephemeral, and three mutators have run
C29_Witness ==
  /\ nops >= 3
  /\ \E n, c \in Pool :
        /\ heap.type[c] = "Error"
        /\ c \in Range(heap.children[n])
        /\ heap.parent[c] \notin {Null, n}
        /\ ~heap.cerr[n]

\* the rule that fired in the step just made, the index it fired at and the
\* activation of apply that made the step
FiredNow == log' # <<>> /\ log'[Len(log')].fired
FiredAt == log'[Len(log')].start
Stepped == stack'[Len(stack)]

\* once mode: a rule that fires at index i and inserts `replaced` nodes
\* leaves the cursor at i + replaced, or at i + none when it inserts none;
\* topdown, apply is called on each of the nodes i .. i + replaced - 1, in
\* order, before the cursor moves
OnceRule(none) ==
  (dirn.once /\ pc = "apply" /\ stack # <<>>) =>
    /\ (ApplyStep /\ FiredNow) =>
          /\ Len(stack') = Len(stack)
          /\ Stepped.replaced = Len(heap'.children[TopFrame.node])
                                  - Len(heap.children[TopFrame.node])
                                  + (log'[Len(log')].hi - FiredAt)
          /\ IF Stepped.replaced = 0
             THEN Stepped.ph = "top" /\ Stepped.it = FiredAt + none
             ELSE IF dirn.topdown
                  THEN Stepped.ph = "down" /\ Stepped.it = FiredAt /\ Stepped.i = 0
                  ELSE Stepped.ph = "top" /\ Stepped.it = FiredAt + Stepped.replaced
    /\ (TopFrame.ph = "down" /\ TopFrame.i < Max(TopFrame.replaced, 1)) =>
          /\ ApplyDown
          /\ Stepped = [TopFrame EXCEPT !.i = @ + 1]
          /\ IF Skipped(heap, heap.children[TopFrame.node][TopFrame.it + TopFrame.i])
             THEN Len(stack') = Len(stack)
             ELSE /\ Len(stack') = Len(stack) + 1
                  /\ stack'[Len(stack')] =
                       Frame(heap.children[TopFrame.node][TopFrame.it + TopFrame.i])
    /\ (TopFrame.ph = "down" /\ TopFrame.i >= Max(TopFrame.replaced, 1)) =>
          /\ ApplyDownDone
          /\ Len(stack') = Len(stack)
          /\ Stepped = [TopFrame EXCEPT !.ph = "top",
                                        !.it = @ + Max(TopFrame.replaced, 1)]

\* C30 as stated: in once mode (topdown or bottomup), after a rule fires at
\* cursor index i and inserts `replaced` nodes, the cursor moves to
\* i + max(replaced, 1); topdown, apply recurses into each of the newly
\* produced nodes before moving on.
C30_OnceMax == [][OnceRule(1)]_vars

\* C30, amended: in once mode, after a rule fires at cursor index i and
\* inserts `replaced` nodes, the cursor moves to i + replaced, which is i
\* itself when the rule removes the matched nodes and inserts none; topdown,
\* apply recurses into each of the newly produced nodes before moving on.
C30_Once == [][OnceRule(0)]_vars

\* once | topdown: a rule has produced two nodes or more, apply has been
\* called on each of them and the cursor stands behind them
C30_Witness ==
  /\ dirn.once /\ dirn.topdown /\ pc = "apply" /\ stack # <<>>
  /\ TopFrame.ph = "top"
  /\ TopFrame.replaced >= 2 /\ TopFrame.i = TopFrame.replaced
  /\ log # <<>> /\ log[Len(log)].fired
  /\ TopFrame.it = log[Len(log)].start + TopFrame.replaced

Attaches(n, c) ==
  \/ PushBack(n, c)
  \/ PushFront(n, c)
  \/ \E pos \in 1..(Len(heap.children[n]) + 1) : Insert(n, pos, c)
  \/ \E a \in Range(heap.children[n]) : Replace(n, a, c)

\* C32: when a child whose tag is Lift, or which has contains_lift set, is
\* attached with push_back, push_front, insert or replace, every ancestor
\* from the new parent up to the root has contains_lift set afterwards, also
\* when the child is tagged Error or has contains_error set.
C32_LiftOnAttach ==
  [][\A n, c \in Pool :
       (Attaches(n, c) /\ (heap.type[c] = "Lift" \/ heap.clift[c]))
          => \A a \in AncestorsOrSelf(heap', n) : heap'.clift[a]]_vars

\* C33: the lift-handling phase clears the lift flag: after run has returned
\* normally, when no Lift node remains in the tree, contains_lift is false on
\* every node of the tree.
C33_LiftFlagCleared ==
  (pc = "done" /\ \A n \in Subtree(heap, Root) : heap.type[n] # "Lift")
     => \A n \in Subtree(heap, Root) : ~heap.clift[n]

\* C34: after any sequence of attach operations with no get_errors in
\* between, the parent of every node that is tagged Error or has
\* contains_error set has contains_error set, so the upward walk of add_flags,
\* which stops at the first ancestor that has the flag, leaves no ancestor of
\* the attached Error unflagged.
C34_EarlyStop ==
  /\ [](~gathered =>
          \A n \in Allocated(heap) :
             ((heap.type[n] = "Error" \/ heap.cerr[n]) /\ heap.parent[n] # Null)
                => heap.cerr[heap.parent[n]])
  /\ [][\A n, c \in Pool :
          (~gathered /\ Attaches(n, c) /\ (heap.type[c] = "Error" \/ heap.cerr[c]))
             => \A a \in AncestorsOrSelf(heap', n) : heap'.cerr[a]]_vars

\* an Error node below an Error node below a third node, all flags set: one
\* of the two attaches met an ancestor that had the flag already
C34_Witness ==
  /\ ~gathered
  /\ \E g, e1, e2 \in Pool :
        /\ heap.type[e1] = "Error" /\ heap.type[e2] = "Error"
        /\ heap.parent[e2] = e1 /\ heap.parent[e1] = g
        /\ heap.cerr[e1] /\ heap.cerr[g]
        /\ e2 \in Range(heap.children[e1]) /\ e1 \in Range(heap.children[g])

\* the index of the last entry e of the history, 0 when there is none
LastCall(e) ==
  IF CallsOf(calls, e[1], e[2]) = {} THEN 0
  ELSE CHOOSE i \in CallsOf(calls, e[1], e[2]) :
          \A j \in CallsOf(calls, e[1], e[2]) : j <= i

\* the children of n that step started at after entry `from` of the history
RECURSIVE StepsSince(_, _)
StepsSince(n, from) ==
  IF from >= Len(calls) THEN <<>>
  ELSE IF calls[from + 1][1] = "step" /\ calls[from + 1][2] \in Range(heap.children[n])
       THEN <<calls[from + 1][2]>> \o StepsSince(n, from + 1)
       ELSE StepsSince(n, from + 1)

\* the children of n that apply examines: all but Error and Lift
RECURSIVE Examined(_)
Examined(kids) ==
  IF kids = <<>> THEN <<>>
  ELSE IF Skipped(heap, Head(kids)) THEN Examined(Tail(kids))
       ELSE <<Head(kids)>> \o Examined(Tail(kids))

\* C35: in a pass without once, after a rule fires at any position among
\* N's children the scan restarts at N's first child, and apply(N) returns
\* only after one complete left-to-right scan of N's children in which no
\* rule fired.
C35_Restart ==
  [][(~dirn.once /\ pc = "apply" /\ stack # <<>>) =>
       /\ (ApplyStep /\ FiredNow) =>
             /\ Len(stack') = Len(stack)
             /\ Stepped.ph = "top" /\ Stepped.it = 1
       /\ ApplyReturn =>
             StepsSince(TopFrame.node,
                        Max(LastCall(<<"apply", TopFrame.node>>),
                            LastCall(<<"fired", TopFrame.node>>)))
               = Examined(heap.children[TopFrame.node])]_vars

\* a pass without once is in its first iteration; within one call of apply
\* on a node, step started at a child without any rule firing, then a rule
\* fired among the node's children, and after it a rule fired at that child:
\* the scan came back to it
C35_Witness ==
  /\ ~dirn.once /\ pc = "lift" /\ count = 0
  /\ \E i, j, k \in DOMAIN calls :
        /\ i < j /\ j + 1 < k
        /\ calls[i][1] = "step" /\ calls[j][1] = "step" /\ calls[k][1] = "step"
        /\ calls[i][2] = calls[k][2]
        /\ calls[i + 1][1] # "fired"
        /\ calls[j + 1][1] = "fired" /\ calls[k + 1] = calls[j + 1]
        /\ \A l \in i..k : calls[l] # <<"apply", calls[j + 1][2]>>

\* C36: run never replaces, removes or rewrites the root node itself: rules
\* are applied only at positions in some node's child list, so the root is
\* never the start of a step nor a node a rule puts in place, it keeps its
\* tag and location, has no parent and is no node's child, and the outermost
\* call of apply is on it.
C36_RootKept ==
  pc # "idle" =>
    /\ heap.type[Root] = heap0.type[Root]
    /\ heap.loc[Root] = heap0.loc[Root]
    /\ heap.parent[Root] = Null
    /\ \A n \in Allocated(heap) : Root \notin Range(heap.children[n])
    /\ \A i \in DOMAIN calls : calls[i][1] \in {"step", "made"} => calls[i][2] # Root
    /\ stack # <<>> => stack[1].node = Root
    /\ \A k \in 2..Len(stack) : stack[k].node # Root

\* run has returned; rules have fired among the children of the root, whose
\* children are no longer the ones it had
C36_Witness ==
  /\ pc = "done"
  /\ \E i \in DOMAIN calls : calls[i] = <<"fired", Root>>
  /\ heap.children[Root] # heap0.children[Root]

\* no destructor is running
Quiet == stack = <<>>

\* C37: destroying a node releases every descendant that has no other owner
\* through the work list: a destructor entered while the flag is set only
\* enqueues its children and returns, destructors nest at most two deep
\* whatever the depth of the tree, and when the outermost destructor has
\* returned the work list is empty, the flag is false, every node without an
\* owner is gone and every node that is gone has no owner.
C37_Destructor ==
  /\ [](Len(stack) <= 2)
  /\ [](Quiet => (work_list = <<>> /\ ~recursive))
  /\ [](Quiet => \A n \in Cells :
                    (heap.type[n] = Free) <=>
                       (use_count(heap, work_list, stack, refs, n) = 0))
  /\ [][(DtorBody /\ recursive) =>
          /\ work_list' = Append(work_list, heap.children[TopFrame.node])
          /\ recursive'
          /\ Len(stack') = Len(stack)
          /\ stack'[Len(stack)].ph = "members"]_vars

\* C38: matching any pattern built from the combinators against a finite
\* child list terminates, also P++ when P can succeed without consuming a
\* node and does not declare custom_rep, as P = ~Q and P = (++Q)[x].
C38_Terminates ==
  mcall.st = "done" => ~mcall.res.div

\* C39: every node lookup returns is, at the time of the call, attached
\* inside the subtree of the scope node whose symbol table holds it: a bound
\* node that has been removed from the tree is not returned, and lookup in a
\* defbeforeuse scope never evaluates precedes on a node of another tree.
C39_LookupAttached ==
  scall.st = "lookup" =>
    /\ ~scall.ub
    /\ \A x \in Range(scall.nodes) :
          \E s \in Allocated(heap) :
             /\ x \in Range(SymtabNodes(heap.symtab[s]))
             /\ x \in Subtree(heap, s)

\* C40: the indexed read Match(name) returns a node of the range captured
\* under name, or null: null when there is no capture under name and when the
\* captured range is empty, as for (T(A)++)[x] matching zero nodes; never a
\* node outside the captured range.
C40_IndexedRead ==
  mcall.st = "read" =>
    /\ ~mcall.out.ub
    /\ \/ mcall.out.ret = Null
       \/ mcall.out.ret \in Range(CapNodes(heap, mcall.res.m, mcall.name))
    /\ CapNodes(heap, mcall.res.m, mcall.name) = <<>> => mcall.out.ret = Null

====
